---- MODULE Spec2Model ----
(***************************************************************************)
(* A model of the go-showcase HTTP service: the in-memory user store of    *)
(* server/server.go (handlers running as concurrent goroutines around one  *)
(* sync.RWMutex) and the WebSocket hub of websocket/hub.go (the Run loop,  *)
(* the per-client pumps and Shutdown).                                     *)
(***************************************************************************)
EXTENDS Integers, Sequences, FiniteSets, Bags, TLC

VARIABLES
    \* ---- server.go: Store ----
    users,        \* store.users: map[int]User, a function from the present ids
    nextID,       \* store.nextID
    storeW,       \* store.mu: the handler holding the write lock, 0 when free
    clock,        \* what time.Now() returns
    hpc,          \* per request handler: where its goroutine stands
    hreq,         \* per request handler: the decoded request
    huser,        \* per request handler: the handler's local `user`
    hexists,      \* per request handler: the handler's local `exists`
    hresp,        \* per request handler: the last response written
    nreq,         \* number of requests served so far
    \* ---- history variables of the store (not program state) ----
    assigned,     \* bag of the ids given to a user record (User.ID at insertion)
    returned,     \* bag of the ids returned in 201 responses of createUser
    lastCreated,  \* id returned by the latest completed createUser, 0 if none
    hprev,        \* per handler: lastCreated when its request began
    fresh,        \* the record of the latest createUser response while untouched
    hfresh,       \* per handler: `fresh` when its getUser request began
    overlap,      \* two createUser requests were in flight at the same time
    batchIds,     \* number of ids handed out by batchCreateUsers
    \* ---- websocket/hub.go: Hub and Client ----
    broadcast,    \* h.broadcast: the buffered channel of pending messages
    clients,      \* h.clients: the registered clients
    hubW,         \* h.mu: who holds the write lock, "free" when nobody
    hubR,         \* h.mu: who holds the read lock
    rpc,          \* Hub.Run: where the loop stands
    rcl,          \* Hub.Run: the local `client` of the case being served
    rmsg,         \* Hub.Run: the local `message`
    rtodo,        \* Hub.Run: clients the range of the fan-out has yet to produce
    send,         \* per client: the content of client.Send
    closed,       \* per client: client.Send has been closed
    connClosed,   \* per client: client.Conn has been closed
    cpc,          \* per client: handleWebSocket ("none" before the upgrade)
    rdpc,         \* per client: Client.ReadPump
    wrpc,         \* per client: Client.WritePump
    sdpc,         \* Hub.Shutdown: where the call stands
    sdcl,         \* Hub.Shutdown: the `client` of the range
    sdtodo,       \* Hub.Shutdown: clients the range has yet to produce
    panic,        \* the runtime panic that ended the process, "none" while it runs
    nbcast,       \* echo and heartbeat messages produced so far
    \* ---- history variables of the hub (not program state) ----
    bcap,         \* cap(h.broadcast)
    nsub,         \* messages accepted by h.broadcast so far
    firstSub,     \* the first message accepted by h.broadcast
    preReg,       \* per client: h.broadcast had accepted a message when Register returned
    drained,      \* per client: the write pump has taken a message from Send
    closes,       \* per client: close(client.Send) calls executed
    sdStart,      \* the registry when Shutdown took the lock
    rstart,       \* the registry when the current fan-out began
    rfull,        \* clients the current fan-out found full
    rsent         \* clients the current fan-out enqueued on

storeVars == <<users, nextID, storeW, clock, hpc, hreq, huser, hexists, hresp, nreq>>
storeHist == <<assigned, returned, lastCreated, hprev, fresh, hfresh, overlap,
               batchIds>>
store == <<storeVars, storeHist>>
chanVars == <<broadcast, bcap, nsub, firstSub>>
muVars == <<hubW, hubR>>
runVars == <<rpc, rcl, rmsg, rtodo>>
fanHist == <<rstart, rfull, rsent>>
sendVars == <<send, closed, closes, panic>>
pumpVars == <<cpc, rdpc, wrpc>>
shutdownVars == <<sdpc, sdcl, sdtodo, sdStart>>
hubVars == <<chanVars, clients, muVars, runVars, fanHist, sendVars, pumpVars,
             connClosed, drained, preReg, shutdownVars, nbcast>>
vars == <<store, hubVars>>

(***************************************************************************)
(* Bounds of the model.                                                    *)
(***************************************************************************)
NumHandlers == 2      \* request-handling goroutines
MaxRequests == 3      \* requests served in one behaviour
MaxClock == 1         \* ticks of the wall clock
MaxBatch == 2         \* entries of one batch request
SendCap == 2          \* capacity of client.Send (256 in the source)
NumClients == 2       \* WebSocket connections
MaxBroadcasts == 2    \* echo and heartbeat messages produced in one behaviour
SmallBroadcastCap == 1 \* a scaled-down capacity of h.broadcast (256 in the source)

Handlers == 1 .. NumHandlers

(***************************************************************************)
(* Request inputs.  An e-mail is a sequence of one-character strings so    *)
(* that the regular expression can be evaluated on it.                     *)
(***************************************************************************)
EmailGood == <<"a", "l", "@", "x", ".", "i", "o">>
EmailNoTld == <<"a", "l", "@", "x">>
Emails == {<< >>, EmailGood, EmailNoTld}
Names == {"", "Alice"}
Ages == {-1, 28, 151}
Countries == {"USA"}
\* ids a request may name: a seeded user and the first id createUser hands out
RequestIds == {5, 6}

LowerLetters == <<"a", "b", "c", "d", "e", "f", "g", "h", "i", "j", "k", "l", "m",
                  "n", "o", "p", "q", "r", "s", "t", "u", "v", "w", "x", "y", "z">>
UpperLetters == <<"A", "B", "C", "D", "E", "F", "G", "H", "I", "J", "K", "L", "M",
                  "N", "O", "P", "Q", "R", "S", "T", "U", "V", "W", "X", "Y", "Z">>
Digits == {"0", "1", "2", "3", "4", "5", "6", "7", "8", "9"}
Range(s) == {s[i] : i \in DOMAIN s}

\* strings.ToLower on one character and on a character sequence
LowerChar(ch) ==
    IF \E i \in 1 .. 26 : UpperLetters[i] = ch
    THEN LowerLetters[CHOOSE i \in 1 .. 26 : UpperLetters[i] = ch]
    ELSE ch
ToLower(s) == [i \in DOMAIN s |-> LowerChar(s[i])]

\* emailRegex: ^[a-z0-9._%+\-]+@[a-z0-9.\-]+\.[a-z]{2,}$
LocalClass == Range(LowerLetters) \cup Digits \cup {".", "_", "%", "+", "-"}
DomainClass == Range(LowerLetters) \cup Digits \cup {".", "-"}
EmailRegexMatch(s) ==
    \E i \in 1 .. Len(s) : \E j \in 1 .. Len(s) :
        /\ s[i] = "@"
        /\ i > 1
        /\ \A k \in 1 .. i - 1 : s[k] \in LocalClass
        /\ s[j] = "."
        /\ j > i + 1
        /\ \A k \in i + 1 .. j - 1 : s[k] \in DomainClass
        /\ Len(s) - j >= 2
        /\ \A k \in j + 1 .. Len(s) : s[k] \in Range(LowerLetters)

(***************************************************************************)
(* type User, and the records initTestData seeds.                          *)
(***************************************************************************)
User(id, name, email, age, country, active, created, updated) ==
    [ID |-> id, Name |-> name, Email |-> email, Age |-> age, Country |-> country,
     Active |-> active, CreatedAt |-> created, UpdatedAt |-> updated]

Mail(local) == local \o <<"@", "e", "x", "a", "m", "p", "l", "e", ".", "c", "o", "m">>
initTestData ==
    [i \in 1 .. 5 |->
        CASE i = 1 -> User(1, "Ivan Petrov", Mail(<<"i", "v", "a", "n">>), 30,
                           "Russia", TRUE, 0, 0)
          [] i = 2 -> User(2, "Maria Sidorova", Mail(<<"m", "a", "r", "i", "a">>), 25,
                           "Russia", TRUE, 0, 0)
          [] i = 3 -> User(3, "Petr Ivanov", Mail(<<"p", "e", "t", "r">>), 35,
                           "Ukraine", FALSE, 0, 0)
          [] i = 4 -> User(4, "John Smith", Mail(<<"j", "o", "h", "n">>), 28,
                           "USA", TRUE, 0, 0)
          [] OTHER -> User(5, "Anna Schmidt", Mail(<<"a", "n", "n", "a">>), 32,
                           "Germany", TRUE, 0, 0)]
SeedNextID == 6

\* map insertion and deletion
MapPut(m, k, v) == [i \in DOMAIN m \cup {k} |-> IF i = k THEN v ELSE m[i]]
MapDelete(m, k) == [i \in DOMAIN m \ {k} |-> m[i]]

(***************************************************************************)
(* Messages of the hub.  Data is the user id of user_created, the client   *)
(* id of welcome and echo, the client count of heartbeat.  The timestamp   *)
(* of a message is not modelled.                                           *)
(***************************************************************************)
Message(type, data) == [Type |-> type, Data |-> data]

NoMessage == Message("", 0)
\* make(chan Message, 256) of NewHub
BroadcastCap == 256
Clients == 1 .. NumClients

\* Hub.BroadcastMessage: h.broadcast <- msg blocks while the buffer is full
BroadcastHasRoom == Len(broadcast) < bcap
BroadcastMessage(msg) ==
    /\ BroadcastHasRoom
    /\ broadcast' = Append(broadcast, msg)
    /\ UNCHANGED bcap
    /\ nsub' = nsub + 1
    /\ firstSub' = IF nsub = 0 THEN msg ELSE firstSub

(***************************************************************************)
(* Requests and responses.                                                 *)
(***************************************************************************)
NoUser == User(0, "", << >>, 0, "", FALSE, 0, 0)
Request(op, name, email, age, country, idOk, id, entries, ids) ==
    [op |-> op, Name |-> name, Email |-> email, Age |-> age, Country |-> country,
     idOk |-> idOk, id |-> id, Users |-> entries, IDs |-> ids]
NoRequest == Request("none", "", << >>, 0, "", TRUE, 0, << >>, << >>)
Response(status, us, ids) == [status |-> status, users |-> us, ids |-> ids]
NoResponse == Response(0, << >>, << >>)
NoFresh == [id |-> 0, rec |-> NoUser, ret |-> FALSE]

StatusOK == 200
StatusCreated == 201
StatusBadRequest == 400
StatusNotFound == 404

\* a store without mutual exclusion, for comparison
StoreCanLock_none(h) == TRUE
\* sync.RWMutex of the store: Lock() succeeds only when nobody holds it
StoreCanLock(h) == storeW = 0
\* RLock() succeeds when no writer holds it
StoreCanRLock(h) == storeW = 0

\* the handler returns: its response is written and its locals are gone
Finish(h, resp) ==
    /\ hpc' = [hpc EXCEPT ![h] = "idle"]
    /\ hresp' = [hresp EXCEPT ![h] = resp]
    /\ hreq' = [hreq EXCEPT ![h] = NoRequest]
    /\ huser' = [huser EXCEPT ![h] = NoUser]
    /\ hexists' = [hexists EXCEPT ![h] = FALSE]

\* a request passed its checks: the handler goes on to pc with its locals set
Proceed(h, pc, req, user) ==
    /\ hpc' = [hpc EXCEPT ![h] = pc]
    /\ hresp' = [hresp EXCEPT ![h] = NoResponse]
    /\ hreq' = [hreq EXCEPT ![h] = req]
    /\ huser' = [huser EXCEPT ![h] = user]
    /\ UNCHANGED hexists

\* a step inside a handler that moves it to pc
Goto(h, pc) == hpc' = [hpc EXCEPT ![h] = pc]

\* a handler takes a new request
Accept(h) ==
    /\ hpc[h] = "idle"
    /\ nreq < MaxRequests
    /\ nreq' = nreq + 1
    /\ hprev' = [hprev EXCEPT ![h] = lastCreated]

CreateInFlight(h) == hpc[h] \in {"c_lock", "c_insert", "c_incr", "c_publish", "c_respond"}

hubRest == <<clients, muVars, runVars, fanHist, sendVars, pumpVars, connClosed,
             drained, preReg, shutdownVars, nbcast>>

(***************************************************************************)
(* createUser                                                              *)
(***************************************************************************)
\* decoding, the validation and now := time.Now()
CreateUserBegin(h) ==
    /\ Accept(h)
    /\ \E name \in Names, email \in Emails, age \in Ages, country \in Countries :
        IF \/ name = "" \/ email = << >>
           \/ ~EmailRegexMatch(ToLower(email))
           \/ age < 0 \/ age > 150
        THEN /\ Finish(h, Response(StatusBadRequest, << >>, << >>))
             /\ UNCHANGED overlap
        ELSE /\ Proceed(h, "c_lock",
                        Request("create", name, email, age, country, TRUE, 0, << >>, << >>),
                        User(0, name, email, age, country, TRUE, clock, clock))
             /\ overlap' = (overlap \/ \E g \in Handlers \ {h} : CreateInFlight(g))
    /\ hfresh' = [hfresh EXCEPT ![h] = NoFresh]
    /\ UNCHANGED <<users, nextID, storeW, clock, assigned, returned, lastCreated,
                   fresh, batchIds, hubVars>>

\* store.mu.Lock(); user := User{ID: store.nextID, ...}
CreateUserLock(h) ==
    /\ hpc[h] = "c_lock"
    /\ StoreCanLock(h)
    /\ storeW' = h
    /\ huser' = [huser EXCEPT ![h].ID = nextID]
    /\ Goto(h, "c_insert")
    /\ UNCHANGED <<users, nextID, clock, hreq, hexists, hresp, nreq, storeHist, hubVars>>

\* an insertion that stores a record other than the one returned, for comparison
CreateUserInsert_inactive(h) ==
    /\ hpc[h] = "c_insert"
    /\ users' = MapPut(users, nextID, [huser[h] EXCEPT !.Active = FALSE])
    /\ assigned' = assigned (+) SetToBag({huser[h].ID})
    /\ fresh' = [id |-> huser[h].ID, rec |-> huser[h], ret |-> FALSE]
    /\ Goto(h, "c_incr")
    /\ UNCHANGED <<nextID, storeW, clock, hreq, huser, hexists, hresp, nreq, returned,
                   lastCreated, hprev, hfresh, overlap, batchIds, hubVars>>
\* store.users[store.nextID] = user
CreateUserInsert(h) ==
    /\ hpc[h] = "c_insert"
    /\ users' = MapPut(users, nextID, huser[h])
    /\ assigned' = assigned (+) SetToBag({huser[h].ID})
    /\ fresh' = [id |-> huser[h].ID, rec |-> huser[h], ret |-> FALSE]
    /\ Goto(h, "c_incr")
    /\ UNCHANGED <<nextID, storeW, clock, hreq, huser, hexists, hresp, nreq, returned,
                   lastCreated, hprev, hfresh, overlap, batchIds, hubVars>>

\* an unlock that leaves the counter as it was, for comparison
CreateUserIncr_same(h) ==
    /\ hpc[h] = "c_incr"
    /\ nextID' = nextID
    /\ storeW' = 0
    /\ Goto(h, "c_publish")
    /\ UNCHANGED <<users, clock, hreq, huser, hexists, hresp, nreq, storeHist, hubVars>>
\* store.nextID++; store.mu.Unlock()
CreateUserIncr(h) ==
    /\ hpc[h] = "c_incr"
    /\ nextID' = nextID + 1
    /\ storeW' = 0
    /\ Goto(h, "c_publish")
    /\ UNCHANGED <<users, clock, hreq, huser, hexists, hresp, nreq, storeHist, hubVars>>

\* a variant that publishes the message twice, for comparison
CreateUserPublish_twice(h) ==
    /\ hpc[h] = "c_publish"
    /\ Len(broadcast) + 1 < bcap
    /\ broadcast' = broadcast \o <<Message("user_created", huser[h].ID),
                                   Message("user_created", huser[h].ID)>>
    /\ nsub' = nsub + 2
    /\ firstSub' = IF nsub = 0 THEN Message("user_created", huser[h].ID) ELSE firstSub
    /\ Goto(h, "c_respond")
    /\ UNCHANGED <<users, nextID, storeW, clock, hreq, huser, hexists, hresp, nreq,
                   storeHist, hubRest, bcap>>
\* hub.BroadcastMessage(ws.Message{Type: "user_created", Data: user})
CreateUserPublish(h) ==
    /\ hpc[h] = "c_publish"
    /\ BroadcastMessage(Message("user_created", huser[h].ID))
    /\ Goto(h, "c_respond")
    /\ UNCHANGED <<users, nextID, storeW, clock, hreq, huser, hexists, hresp, nreq,
                   storeHist, hubRest>>

\* respondJSON(w, http.StatusCreated, user)
CreateUserRespond(h) ==
    /\ hpc[h] = "c_respond"
    /\ Finish(h, Response(StatusCreated, <<huser[h]>>, << >>))
    /\ returned' = returned (+) SetToBag({huser[h].ID})
    /\ lastCreated' = IF huser[h].ID > lastCreated THEN huser[h].ID ELSE lastCreated
    /\ fresh' = IF fresh.id = huser[h].ID THEN [fresh EXCEPT !.ret = TRUE] ELSE fresh
    /\ UNCHANGED <<users, nextID, storeW, clock, nreq, assigned, hprev, hfresh, overlap,
                   batchIds, hubVars>>

(***************************************************************************)
(* getUser                                                                 *)
(***************************************************************************)
\* id, err := strconv.Atoi(vars["id"])
GetUserBegin(h) ==
    /\ Accept(h)
    /\ \E idOk \in BOOLEAN, id \in RequestIds :
        /\ hfresh' = [hfresh EXCEPT ![h] = IF idOk /\ fresh.id = id /\ fresh.ret THEN fresh
                                           ELSE NoFresh]
        /\ IF ~idOk
           THEN Finish(h, Response(StatusBadRequest, << >>, << >>))
           ELSE Proceed(h, "g_read",
                        Request("get", "", << >>, 0, "", idOk, id, << >>, << >>), NoUser)
    /\ UNCHANGED <<users, nextID, storeW, clock, assigned, returned, lastCreated, fresh,
                   overlap, batchIds, hubVars>>

\* store.mu.RLock(); user, exists := store.users[id]; store.mu.RUnlock()
GetUserRead(h) ==
    /\ hpc[h] = "g_read"
    /\ StoreCanRLock(h)
    /\ hexists' = [hexists EXCEPT ![h] = hreq[h].id \in DOMAIN users]
    /\ huser' = [huser EXCEPT ![h] = IF hreq[h].id \in DOMAIN users
                                     THEN users[hreq[h].id] ELSE NoUser]
    /\ Goto(h, "g_respond")
    /\ UNCHANGED <<users, nextID, storeW, clock, hreq, hresp, nreq, storeHist, hubVars>>

\* respondError(w, http.StatusNotFound, ...) or respondJSON(w, http.StatusOK, user)
GetUserRespond(h) ==
    /\ hpc[h] = "g_respond"
    /\ Finish(h, IF hexists[h] THEN Response(StatusOK, <<huser[h]>>, << >>)
                 ELSE Response(StatusNotFound, << >>, << >>))
    /\ UNCHANGED <<users, nextID, storeW, clock, nreq, storeHist, hubVars>>

(***************************************************************************)
(* deleteUser                                                              *)
(***************************************************************************)
\* an operation on id ends the "right after Create" window of that id
Touch(ids) ==
    /\ fresh' = IF fresh.id \in ids THEN NoFresh ELSE fresh
    /\ hfresh' = [g \in Handlers |-> IF hfresh[g].id \in ids THEN NoFresh ELSE hfresh[g]]

DeleteUserBegin(h) ==
    /\ Accept(h)
    /\ \E idOk \in BOOLEAN, id \in RequestIds :
        IF ~idOk
        THEN Finish(h, Response(StatusBadRequest, << >>, << >>))
        ELSE Proceed(h, "d_lock",
                     Request("delete", "", << >>, 0, "", idOk, id, << >>, << >>), NoUser)
    /\ hfresh' = [hfresh EXCEPT ![h] = NoFresh]
    /\ UNCHANGED <<users, nextID, storeW, clock, assigned, returned, lastCreated, fresh,
                   overlap, batchIds, hubVars>>

\* a deletion that hands the newest id back to the counter, for comparison
DeleteUserLocked_reuse(h) ==
    /\ hpc[h] = "d_lock"
    /\ StoreCanLock(h)
    /\ hexists' = [hexists EXCEPT ![h] = hreq[h].id \in DOMAIN users]
    /\ users' = IF hreq[h].id \in DOMAIN users THEN MapDelete(users, hreq[h].id)
                ELSE users
    /\ nextID' = IF hreq[h].id = nextID - 1 THEN hreq[h].id ELSE nextID
    /\ Touch({hreq[h].id})
    /\ Goto(h, "d_respond")
    /\ UNCHANGED <<storeW, clock, hreq, huser, hresp, nreq, assigned, returned,
                   lastCreated, hprev, overlap, batchIds, hubVars>>
\* store.mu.Lock(); _, exists := store.users[id]; delete(store.users, id);
\* store.mu.Unlock()
DeleteUserLocked(h) ==
    /\ hpc[h] = "d_lock"
    /\ StoreCanLock(h)
    /\ hexists' = [hexists EXCEPT ![h] = hreq[h].id \in DOMAIN users]
    /\ users' = IF hreq[h].id \in DOMAIN users THEN MapDelete(users, hreq[h].id)
                ELSE users
    /\ Touch({hreq[h].id})
    /\ Goto(h, "d_respond")
    /\ UNCHANGED <<nextID, storeW, clock, hreq, huser, hresp, nreq, assigned, returned,
                   lastCreated, hprev, overlap, batchIds, hubVars>>

\* a response that reports success whatever the lookup found, for comparison
DeleteUserRespond_ok(h) ==
    /\ hpc[h] = "d_respond"
    /\ Finish(h, Response(StatusOK, << >>, << >>))
    /\ UNCHANGED <<users, nextID, storeW, clock, nreq, storeHist, hubVars>>
\* respondError(w, http.StatusNotFound, ...) or respondJSON(w, http.StatusOK, ...)
DeleteUserRespond(h) ==
    /\ hpc[h] = "d_respond"
    /\ Finish(h, IF hexists[h] THEN Response(StatusOK, << >>, << >>)
                 ELSE Response(StatusNotFound, << >>, << >>))
    /\ UNCHANGED <<users, nextID, storeW, clock, nreq, storeHist, hubVars>>

(***************************************************************************)
(* batchCreateUsers and batchDeleteUsers                                   *)
(***************************************************************************)
MaxBatchUsers == 100
Entry(name, email, age, country) ==
    [Name |-> name, Email |-> email, Age |-> age, Country |-> country]
BatchEntries == {Entry("Bob", EmailGood, 200, ""), Entry("", EmailGood, 28, ""),
                 Entry("Bob", EmailNoTld, 28, "")}
SeqsUpTo(S, n) == UNION {[1 .. k -> S] : k \in 0 .. n}

BatchCreateBegin(h) ==
    /\ Accept(h)
    /\ \E entries \in SeqsUpTo(BatchEntries, MaxBatch) :
        IF Len(entries) = 0 \/ Len(entries) > MaxBatchUsers
        THEN Finish(h, Response(StatusBadRequest, << >>, << >>))
        ELSE Proceed(h, "bc_lock",
                     Request("batch_create", "", << >>, 0, "", TRUE, 0, entries, << >>),
                     NoUser)
    /\ hfresh' = [hfresh EXCEPT ![h] = NoFresh]
    /\ UNCHANGED <<users, nextID, storeW, clock, assigned, returned, lastCreated, fresh,
                   overlap, batchIds, hubVars>>

\* a loop in which a skipped entry takes an id all the same, for comparison
RECURSIVE BatchCreateLoop_skip(_, _, _, _, _)
BatchCreateLoop_skip(entries, i, us, nid, created) ==
    IF i > Len(entries)
    THEN [users |-> us, nextID |-> nid, created |-> created]
    ELSE LET e == entries[i] IN
         IF \/ e.Name = "" \/ e.Email = << >>
            \/ ~EmailRegexMatch(ToLower(e.Email))
         THEN BatchCreateLoop_skip(entries, i + 1, us, nid + 1, created)
         ELSE LET user == User(nid, e.Name, e.Email, e.Age, e.Country, TRUE,
                               clock, clock)
              IN BatchCreateLoop_skip(entries, i + 1, MapPut(us, nid, user), nid + 1,
                                      Append(created, user))

\* the loop over req.Users: the state after entries i .. Len(entries), from the
\* table us, the counter nid and the created users so far
RECURSIVE BatchCreateLoop(_, _, _, _, _)
BatchCreateLoop(entries, i, us, nid, created) ==
    IF i > Len(entries)
    THEN [users |-> us, nextID |-> nid, created |-> created]
    ELSE LET e == entries[i] IN
         IF \/ e.Name = "" \/ e.Email = << >>
            \/ ~EmailRegexMatch(ToLower(e.Email))
         THEN BatchCreateLoop(entries, i + 1, us, nid, created)
         ELSE LET user == User(nid, e.Name, e.Email, e.Age, e.Country, TRUE,
                               clock, clock)
              IN BatchCreateLoop(entries, i + 1, MapPut(us, nid, user), nid + 1,
                                 Append(created, user))

\* store.mu.Lock(); defer store.mu.Unlock(); the loop; respondJSON
BatchCreateLocked(h) ==
    /\ hpc[h] = "bc_lock"
    /\ StoreCanLock(h)
    /\ LET r == BatchCreateLoop(hreq[h].Users, 1, users, nextID, << >>) IN
        /\ users' = r.users
        /\ nextID' = r.nextID
        /\ Finish(h, Response(StatusCreated, r.created, << >>))
        /\ assigned' = assigned (+) SetToBag({r.created[i].ID : i \in DOMAIN r.created})
        /\ batchIds' = batchIds + Len(r.created)
    /\ UNCHANGED <<storeW, clock, nreq, returned, lastCreated, hprev, fresh, hfresh,
                   overlap, hubVars>>

BatchDeleteBegin(h) ==
    /\ Accept(h)
    /\ \E ids \in SeqsUpTo(RequestIds, MaxBatch) :
        IF Len(ids) = 0
        THEN Finish(h, Response(StatusBadRequest, << >>, << >>))
        ELSE Proceed(h, "bd_lock",
                     Request("batch_delete", "", << >>, 0, "", TRUE, 0, << >>, ids),
                     NoUser)
    /\ hfresh' = [hfresh EXCEPT ![h] = NoFresh]
    /\ UNCHANGED <<users, nextID, storeW, clock, assigned, returned, lastCreated, fresh,
                   overlap, batchIds, hubVars>>

\* the loop over req.IDs: the table and the deleted ids after ids i .. Len(ids)
RECURSIVE BatchDeleteLoop(_, _, _, _)
BatchDeleteLoop(ids, i, us, deleted) ==
    IF i > Len(ids)
    THEN [users |-> us, deleted |-> deleted]
    ELSE IF ids[i] \in DOMAIN us
         THEN BatchDeleteLoop(ids, i + 1, MapDelete(us, ids[i]), Append(deleted, ids[i]))
         ELSE BatchDeleteLoop(ids, i + 1, us, deleted)

\* store.mu.Lock(); defer store.mu.Unlock(); the loop; respondJSON
BatchDeleteLocked(h) ==
    /\ hpc[h] = "bd_lock"
    /\ StoreCanLock(h)
    /\ LET r == BatchDeleteLoop(hreq[h].IDs, 1, users, << >>) IN
        /\ users' = r.users
        /\ Finish(h, Response(StatusOK, << >>, r.deleted))
    /\ Touch(Range(hreq[h].IDs))
    /\ UNCHANGED <<nextID, storeW, clock, nreq, assigned, returned, lastCreated, hprev,
                   overlap, batchIds, hubVars>>

(***************************************************************************)
(* updateUser, activateUser and deactivateUser                             *)
(***************************************************************************)
\* the body of an update: "" is an absent string, Age is a *int (<< >> is nil)
Update(name, email, age, country) ==
    [Name |-> name, Email |-> email, Age |-> age, Country |-> country]
EmailOther == <<"b", "@", "x", ".", "i", "o">>
UpdateInputs == {Update("Carol", << >>, << >>, ""), Update("", EmailOther, <<0>>, ""),
                 Update("", << >>, << >>, "DE"), Update("", EmailNoTld, << >>, ""),
                 Update("Carol", << >>, <<151>>, "")}

\* the two checks of updateUser that answer 400
UpdateValid(req) ==
    /\ req.Email # << >> => EmailRegexMatch(ToLower(req.Email))
    /\ req.Age # << >> => (req.Age[1] >= 0 /\ req.Age[1] <= 150)

\* the record updateUser stores for the record old, the body req and the time now
UpdateApply_country(old, req, now) ==
    [old EXCEPT !.Name = IF req.Name # "" THEN req.Name ELSE @,
                !.Email = IF req.Email # << >> THEN req.Email ELSE @,
                !.Age = IF req.Age # << >> THEN req.Age[1] ELSE @,
                !.Country = req.Country,
                !.UpdatedAt = now]
UpdateApply(old, req, now) ==
    [old EXCEPT !.Name = IF req.Name # "" THEN req.Name ELSE @,
                !.Email = IF req.Email # << >> THEN req.Email ELSE @,
                !.Age = IF req.Age # << >> THEN req.Age[1] ELSE @,
                !.Country = IF req.Country # "" THEN req.Country ELSE @,
                !.UpdatedAt = now]

\* id, err := strconv.Atoi(vars["id"]) and the decoding of the body
UpdateUserBegin(h) ==
    /\ Accept(h)
    /\ \E idOk \in BOOLEAN, id \in RequestIds, in \in UpdateInputs :
        IF ~idOk
        THEN Finish(h, Response(StatusBadRequest, << >>, << >>))
        ELSE Proceed(h, "u_lock",
                     Request("update", in.Name, in.Email, in.Age, in.Country, idOk, id,
                             << >>, << >>), NoUser)
    /\ hfresh' = [hfresh EXCEPT ![h] = NoFresh]
    /\ UNCHANGED <<users, nextID, storeW, clock, assigned, returned, lastCreated, fresh,
                   overlap, batchIds, hubVars>>

\* a variant that modifies the record as it was seeded instead of the stored one,
\* for comparison
UpdateUserLocked_stale(h) ==
    /\ hpc[h] = "u_lock"
    /\ StoreCanLock(h)
    /\ LET id == hreq[h].id
           ok == id \in DOMAIN users /\ UpdateValid(hreq[h])
           old == IF id \in DOMAIN initTestData THEN initTestData[id] ELSE users[id]
           user == UpdateApply(old, hreq[h], clock)
       IN /\ hexists' = [hexists EXCEPT ![h] = id \in DOMAIN users]
          /\ users' = IF ok THEN MapPut(users, id, user) ELSE users
          /\ huser' = [huser EXCEPT ![h] = IF ok THEN user ELSE NoUser]
          /\ Touch({id})
    /\ Goto(h, "u_respond")
    /\ UNCHANGED <<nextID, storeW, clock, hreq, hresp, nreq, assigned, returned,
                   lastCreated, hprev, overlap, batchIds, hubVars>>
\* a variant that stores the name before it has validated the rest, for comparison
UpdateUserLocked_early(h) ==
    /\ hpc[h] = "u_lock"
    /\ StoreCanLock(h)
    /\ LET id == hreq[h].id
           ok == id \in DOMAIN users /\ UpdateValid(hreq[h])
           user == UpdateApply(users[id], hreq[h], clock)
           named == [users[id] EXCEPT !.Name = IF hreq[h].Name # "" THEN hreq[h].Name
                                               ELSE @]
       IN /\ hexists' = [hexists EXCEPT ![h] = id \in DOMAIN users]
          /\ users' = IF ok THEN MapPut(users, id, user)
                      ELSE IF id \in DOMAIN users THEN MapPut(users, id, named)
                           ELSE users
          /\ huser' = [huser EXCEPT ![h] = IF ok THEN user ELSE NoUser]
          /\ Touch({id})
    /\ Goto(h, "u_respond")
    /\ UNCHANGED <<nextID, storeW, clock, hreq, hresp, nreq, assigned, returned,
                   lastCreated, hprev, overlap, batchIds, hubVars>>
\* store.mu.Lock(); user, exists := store.users[id]; the checks and the
\* assignments; user.UpdatedAt = time.Now(); store.users[id] = user;
\* store.mu.Unlock() (on every path)
UpdateUserLocked(h) ==
    /\ hpc[h] = "u_lock"
    /\ StoreCanLock(h)
    /\ LET id == hreq[h].id
           ok == id \in DOMAIN users /\ UpdateValid(hreq[h])
           user == UpdateApply(users[id], hreq[h], clock)
       IN /\ hexists' = [hexists EXCEPT ![h] = id \in DOMAIN users]
          /\ users' = IF ok THEN MapPut(users, id, user) ELSE users
          /\ huser' = [huser EXCEPT ![h] = IF ok THEN user ELSE NoUser]
          /\ Touch({id})
    /\ Goto(h, "u_respond")
    /\ UNCHANGED <<nextID, storeW, clock, hreq, hresp, nreq, assigned, returned,
                   lastCreated, hprev, overlap, batchIds, hubVars>>

\* respondError(w, 404 or 400, ...) or respondJSON(w, http.StatusOK, user)
UpdateUserRespond(h) ==
    /\ hpc[h] = "u_respond"
    /\ Finish(h, IF ~hexists[h] THEN Response(StatusNotFound, << >>, << >>)
                 ELSE IF ~UpdateValid(hreq[h])
                      THEN Response(StatusBadRequest, << >>, << >>)
                      ELSE Response(StatusOK, <<huser[h]>>, << >>))
    /\ UNCHANGED <<users, nextID, storeW, clock, nreq, storeHist, hubVars>>

\* activateUser and deactivateUser up to the lock
SetActiveBegin(h) ==
    /\ Accept(h)
    /\ \E idOk \in BOOLEAN, id \in RequestIds, op \in {"activate", "deactivate"} :
        IF ~idOk
        THEN Finish(h, Response(StatusBadRequest, << >>, << >>))
        ELSE Proceed(h, "a_lock",
                     Request(op, "", << >>, 0, "", idOk, id, << >>, << >>), NoUser)
    /\ hfresh' = [hfresh EXCEPT ![h] = NoFresh]
    /\ UNCHANGED <<users, nextID, storeW, clock, assigned, returned, lastCreated, fresh,
                   overlap, batchIds, hubVars>>

\* a variant that flips the flag instead of setting it, for comparison
SetActiveLocked_toggle(h) ==
    /\ hpc[h] = "a_lock"
    /\ StoreCanLock(h)
    /\ LET id == hreq[h].id
           user == [users[id] EXCEPT !.Active = ~@, !.UpdatedAt = clock]
       IN /\ users' = IF id \in DOMAIN users THEN MapPut(users, id, user) ELSE users
          /\ Finish(h, IF id \in DOMAIN users THEN Response(StatusOK, <<user>>, << >>)
                       ELSE Response(StatusNotFound, << >>, << >>))
          /\ Touch({id})
    /\ UNCHANGED <<nextID, storeW, clock, nreq, assigned, returned, lastCreated, hprev,
                   overlap, batchIds, hubVars>>
\* a variant that stamps both timestamps, for comparison
SetActiveLocked_restamp(h) ==
    /\ hpc[h] = "a_lock"
    /\ StoreCanLock(h)
    /\ LET id == hreq[h].id
           user == [users[id] EXCEPT !.Active = (hreq[h].op = "activate"),
                                     !.CreatedAt = clock, !.UpdatedAt = clock]
       IN /\ users' = IF id \in DOMAIN users THEN MapPut(users, id, user) ELSE users
          /\ Finish(h, IF id \in DOMAIN users THEN Response(StatusOK, <<user>>, << >>)
                       ELSE Response(StatusNotFound, << >>, << >>))
          /\ Touch({id})
    /\ UNCHANGED <<nextID, storeW, clock, nreq, assigned, returned, lastCreated, hprev,
                   overlap, batchIds, hubVars>>
\* store.mu.Lock(); defer store.mu.Unlock(); user.Active = true or false;
\* user.UpdatedAt = time.Now(); store.users[id] = user; the response
SetActiveLocked(h) ==
    /\ hpc[h] = "a_lock"
    /\ StoreCanLock(h)
    /\ LET id == hreq[h].id
           user == [users[id] EXCEPT !.Active = (hreq[h].op = "activate"),
                                     !.UpdatedAt = clock]
       IN /\ users' = IF id \in DOMAIN users THEN MapPut(users, id, user) ELSE users
          /\ Finish(h, IF id \in DOMAIN users THEN Response(StatusOK, <<user>>, << >>)
                       ELSE Response(StatusNotFound, << >>, << >>))
          /\ Touch({id})
    /\ UNCHANGED <<nextID, storeW, clock, nreq, assigned, returned, lastCreated, hprev,
                   overlap, batchIds, hubVars>>

(***************************************************************************)
(* Go's int in getUsers.  On amd64 an int has 64 bits, more than a value   *)
(* of TLC holds: an int is a sequence of IntLimbs digits of base IntBase,  *)
(* least significant first, in two's complement.  Arithmetic wraps around  *)
(* as Go's does.                                                           *)
(***************************************************************************)
IntBase == 65536
IntLimbs == 4
\* the int of a small natural number
GoInt(n) == [i \in 1 .. IntLimbs |-> IF i = 1 THEN n % IntBase
                                   ELSE IF i = 2 THEN (n \div IntBase) % IntBase
                                   ELSE 0]
IsNeg(x) == x[IntLimbs] >= IntBase \div 2
IsZero(x) == \A i \in 1 .. IntLimbs : x[i] = 0
\* the int is a natural number below 2^30, and that number
Fits(x) == (\A i \in 3 .. IntLimbs : x[i] = 0) /\ x[2] < 16384
Val(x) == x[2] * IntBase + x[1]

\* the digits of x * m from digit i on, with the carry as the last one
RECURSIVE MulLimbs(_, _, _, _)
MulLimbs(x, m, i, carry) ==
    IF i > Len(x) THEN <<carry>>
    ELSE LET t == x[i] * m + carry
         IN <<t % IntBase>> \o MulLimbs(x, m, i + 1, t \div IntBase)
\* x * m in an int
Mul(x, m) == SubSeq(MulLimbs(x, m, 1, 0), 1, IntLimbs)

\* the digits of x + carry from digit i on
RECURSIVE AddLimbs(_, _, _)
AddLimbs(x, i, carry) ==
    IF i > Len(x) THEN <<carry>>
    ELSE LET t == x[i] + carry
         IN <<t % IntBase>> \o AddLimbs(x, i + 1, t \div IntBase)
\* x + n in an int
Add(x, n) == SubSeq(AddLimbs(x, 1, n), 1, IntLimbs)

\* x - 1
RECURSIVE DecLimbs(_, _)
DecLimbs(x, i) ==
    IF i > Len(x) THEN << >>
    ELSE IF x[i] > 0 THEN <<x[i] - 1>> \o SubSeq(x, i + 1, Len(x))
         ELSE <<IntBase - 1>> \o DecLimbs(x, i + 1)
Dec(x) == DecLimbs(x, 1)

\* x >= n and x > n for an int x and a small natural number n
GeNat(x, n) == ~IsNeg(x) /\ (~Fits(x) \/ Val(x) >= n)
GtNat(x, n) == ~IsNeg(x) /\ (~Fits(x) \/ Val(x) > n)

(***************************************************************************)
(* Strings as character sequences.  The names of the seeded users are      *)
(* written in Latin letters in this model.                                 *)
(***************************************************************************)
Chars(name) ==
    CASE name = "Ivan Petrov" -> <<"I", "v", "a", "n", " ", "P", "e", "t", "r", "o", "v">>
      [] name = "Maria Sidorova" -> <<"M", "a", "r", "i", "a", " ", "S", "i", "d", "o", "r",
                                      "o", "v", "a">>
      [] name = "Petr Ivanov" -> <<"P", "e", "t", "r", " ", "I", "v", "a", "n", "o", "v">>
      [] name = "John Smith" -> <<"J", "o", "h", "n", " ", "S", "m", "i", "t", "h">>
      [] name = "Anna Schmidt" -> <<"A", "n", "n", "a", " ", "S", "c", "h", "m", "i", "d", "t">>
      [] name = "Alice" -> <<"A", "l", "i", "c", "e">>
      [] name = "Bob" -> <<"B", "o", "b">>
      [] name = "Carol" -> <<"C", "a", "r", "o", "l">>
      [] OTHER -> << >>

\* the order of the bytes: space, capitals, small letters
Alphabet == <<" ">> \o UpperLetters \o LowerLetters
Code(ch) == CHOOSE i \in 1 .. Len(Alphabet) : Alphabet[i] = ch
\* a < b on strings
StrLess(a, b) ==
    \E k \in 1 .. Len(b) :
        /\ k <= Len(a) + 1
        /\ \A i \in 1 .. k - 1 : a[i] = b[i]
        /\ (k = Len(a) + 1 \/ Code(a[k]) < Code(b[k]))
\* strings.Contains(s, sub)
Contains(s, sub) ==
    \E k \in 0 .. Len(s) - Len(sub) : SubSeq(s, k + 1, k + Len(sub)) = sub

(***************************************************************************)
(* getUsers                                                                *)
(***************************************************************************)
\* a parameter of the query string: absent, not a number, or a number
Param(kind, val) == [kind |-> kind, val |-> val]
Missing == Param("missing", GoInt(0))
\* 2^62 + 1
HugePage == [i \in 1 .. IntLimbs |-> IF i = 1 THEN 1
                                     ELSE IF i = IntLimbs THEN IntBase \div 4 ELSE 0]
\* -1
MinusOne == [i \in 1 .. IntLimbs |-> IntBase - 1]
\* a text strconv.Atoi rejects
Junk == Param("junk", GoInt(0))
PageParams == {Missing, Junk, Param("int", GoInt(0)), Param("int", MinusOne),
               Param("int", GoInt(2)), Param("int", HugePage)}
PerPageParams == {Missing, Junk, Param("int", GoInt(0)), Param("int", MinusOne),
                  Param("int", GoInt(2)), Param("int", GoInt(4)),
                  Param("int", GoInt(101))}
\* the parameters sort and order
Sorts == {<<"", "">>, <<"age", "">>, <<"age", "desc">>, <<"name", "">>,
          <<"name", "desc">>, <<"created", "">>, <<"created", "desc">>}
\* the query strings of the requests: every page with a small per_page, every
\* per_page on the first page, and every sort on a whole table in one page and
\* on the second page of two users
ListQueries ==
    (PageParams \X {Param("int", GoInt(2)), Param("int", GoInt(4))} \X {<<"", "">>})
    \cup ({Missing} \X PerPageParams \X {<<"", "">>})
    \cup ({Missing} \X {Param("int", GoInt(4))} \X Sorts)
    \cup ({Param("int", GoInt(2))} \X {Param("int", GoInt(2))} \X Sorts)

\* page := 1, replaced by a parsed p > 0
PageOf(param) ==
    IF param.kind = "int" /\ ~IsNeg(param.val) /\ ~IsZero(param.val) THEN param.val
    ELSE GoInt(1)
\* perPage := 10, replaced by a parsed pp > 0 && pp <= 100
PerPageOf(param) ==
    IF /\ param.kind = "int" /\ ~IsNeg(param.val) /\ Fits(param.val)
       /\ Val(param.val) > 0 /\ Val(param.val) <= 100
    THEN Val(param.val)
    ELSE 10

\* the orders in which `for _, user := range store.users` may produce the table
Perms(S) ==
    {f \in [1 .. Cardinality(S) -> S] : \A i, j \in DOMAIN f : f[i] = f[j] => i = j}

\* a condition that ignores order and always sorts upwards, for comparison
Exchange_asc(u, v, sortBy, order) ==
    CASE sortBy = "name" -> StrLess(Chars(v.Name), Chars(u.Name))
      [] sortBy = "age" -> u.Age > v.Age
      [] sortBy = "created" -> u.CreatedAt > v.CreatedAt
      [] OTHER -> FALSE

\* the condition under which the sort exchanges allUsers[i] and allUsers[j]
Exchange(u, v, sortBy, order) ==
    CASE sortBy = "name" ->
            IF order = "desc" THEN StrLess(Chars(u.Name), Chars(v.Name))
            ELSE StrLess(Chars(v.Name), Chars(u.Name))
      [] sortBy = "age" ->
            IF order = "desc" THEN u.Age < v.Age ELSE u.Age > v.Age
      [] sortBy = "created" ->
            IF order = "desc" THEN u.CreatedAt < v.CreatedAt
            ELSE u.CreatedAt > v.CreatedAt
      [] OTHER -> FALSE

\* the two nested loops of the sort, from the indexes i and j on
RECURSIVE ExchangeSort(_, _, _, _, _)
ExchangeSort(a, i, j, sortBy, order) ==
    IF i > Len(a) THEN a
    ELSE IF j > Len(a) THEN ExchangeSort(a, i + 1, i + 2, sortBy, order)
    ELSE ExchangeSort(IF Exchange(a[i], a[j], sortBy, order)
                      THEN [a EXCEPT ![i] = a[j], ![j] = a[i]] ELSE a,
                      i, j + 1, sortBy, order)

PageResponse(data, page, perPage, total, totalPages) ==
    [status |-> StatusOK, users |-> data, ids |-> << >>, page |-> page,
     perPage |-> perPage, total |-> total, totalPages |-> totalPages]
\* the handler panicked: net/http ends the connection without a response
PanicResponse(what) == [status |-> 0, users |-> << >>, ids |-> << >>, panic |-> what]

\* the request reaches the handler with its query string
GetUsersBegin(h) ==
    /\ Accept(h)
    /\ \E q \in ListQueries :
        Proceed(h, "l_run", [op |-> "list", page |-> q[1], perPage |-> q[2],
                             sort |-> q[3][1], order |-> q[3][2]], NoUser)
    /\ hfresh' = [hfresh EXCEPT ![h] = NoFresh]
    /\ UNCHANGED <<users, nextID, storeW, clock, assigned, returned, lastCreated, fresh,
                   overlap, batchIds, hubVars>>

\* what getUsers answers when the range produced the table in the order `order`
GetUsersResult(req, order) ==
    LET page == PageOf(req.page)
        perPage == PerPageOf(req.perPage)
        allUsers == ExchangeSort([i \in DOMAIN order |-> users[order[i]]], 1, 2,
                                 req.sort, req.order)
        total == Len(allUsers)
        totalPages == (total + perPage - 1) \div perPage
        start == Mul(Dec(page), perPage)
        end == Add(start, perPage)
    IN IF GeNat(start, total)
       THEN PageResponse(<< >>, page, perPage, total, totalPages)
       ELSE IF IsNeg(start)
            THEN PanicResponse("slice bounds out of range")
            ELSE PageResponse(SubSeq(allUsers, Val(start) + 1,
                                     IF GtNat(end, total) THEN total ELSE Val(end)),
                              page, perPage, total, totalPages)

\* store.mu.RLock(); defer store.mu.RUnlock(); the parameters, allUsers, the
\* sort, the window and the response
GetUsers(h) ==
    /\ hpc[h] = "l_run"
    /\ StoreCanRLock(h)
    /\ \E order \in Perms(DOMAIN users) : Finish(h, GetUsersResult(hreq[h], order))
    /\ UNCHANGED <<users, nextID, storeW, clock, nreq, storeHist, hubVars>>

(***************************************************************************)
(* searchUsers                                                             *)
(***************************************************************************)
Queries == {<< >>, <<"I", "v", "a", "n">>, <<"e", "x">>}
SearchCountries == {"", "USA"}
ActiveParams == {"", "true", "false"}

\* active, _ := strconv.ParseBool(activeStr): false when it does not parse
ParseBool(str) == str \in {"1", "t", "T", "TRUE", "true", "True"}

\* a filter that keeps a user as soon as one criterion holds, for comparison
Match_any(u, req) ==
    LET query == ToLower(req.q) IN
    \/ (query # << >> /\ (\/ Contains(ToLower(Chars(u.Name)), query)
                          \/ Contains(ToLower(u.Email), query)))
    \/ (req.country # "" /\ u.Country = req.country)
    \/ (req.active # "" /\ u.Active = ParseBool(req.active))
\* the user passes every `continue` of the loop
Match(u, req) ==
    LET query == ToLower(req.q) IN
    /\ ~(query # << >> /\ ~Contains(ToLower(Chars(u.Name)), query)
                       /\ ~Contains(ToLower(u.Email), query))
    /\ ~(req.country # "" /\ u.Country # req.country)
    /\ ~(req.active # "" /\ u.Active # ParseBool(req.active))

\* results = append(results, user) for the users of `all` from index i on
RECURSIVE SearchLoop(_, _, _, _)
SearchLoop(all, i, req, results) ==
    IF i > Len(all) THEN results
    ELSE SearchLoop(all, i + 1, req,
                    IF Match(all[i], req) THEN Append(results, all[i]) ELSE results)

SearchResponse(results) ==
    [status |-> StatusOK, users |-> results, ids |-> << >>, count |-> Len(results)]

\* the request reaches the handler with its query string
SearchUsersBegin(h) ==
    /\ Accept(h)
    /\ \E q \in Queries, country \in SearchCountries, active \in ActiveParams :
        Proceed(h, "s_run", [op |-> "search", q |-> q, country |-> country,
                             active |-> active], NoUser)
    /\ hfresh' = [hfresh EXCEPT ![h] = NoFresh]
    /\ UNCHANGED <<users, nextID, storeW, clock, assigned, returned, lastCreated, fresh,
                   overlap, batchIds, hubVars>>

\* store.mu.RLock(); defer store.mu.RUnlock(); the loop over store.users and the
\* response
SearchUsers(h) ==
    /\ hpc[h] = "s_run"
    /\ StoreCanRLock(h)
    /\ \E order \in Perms(DOMAIN users) :
        Finish(h, SearchResponse(SearchLoop([i \in DOMAIN order |-> users[order[i]]],
                                            1, hreq[h], << >>)))
    /\ UNCHANGED <<users, nextID, storeW, clock, nreq, storeHist, hubVars>>

\* the wall clock advances
Tick ==
    /\ clock < MaxClock
    /\ clock' = clock + 1
    /\ UNCHANGED <<users, nextID, storeW, hpc, hreq, huser, hexists, hresp, nreq,
                   storeHist, hubVars>>

(***************************************************************************)
(* websocket/hub.go.  A panic of any goroutine ends the process: nothing   *)
(* runs once panic is set.                                                 *)
(***************************************************************************)
Alive == panic = "none"

\* sync.RWMutex of the hub
HubCanLock == hubW = "free" /\ hubR = {}
HubCanRLock == hubW = "free"

\* a channel that delivered the newest message first, for comparison
Enqueue_front(q, m) == <<m>> \o q
\* ch <- m on a buffered channel with room
Enqueue(q, m) == Append(q, m)

\* what a send on client.Send meets: a closed channel panics, a full one blocks
\* (or takes the default case of a select)
Outcome(c) ==
    IF closed[c] THEN "panic"
    ELSE IF Len(send[c]) < SendCap THEN "sent" ELSE "full"

\* select { case client.Send <- m: default: close(client.Send) } with outcome o
ApplySend(c, m, o) ==
    /\ send' = IF o = "sent" THEN [send EXCEPT ![c] = Enqueue(@, m)] ELSE send
    /\ closed' = IF o = "full" THEN [closed EXCEPT ![c] = TRUE] ELSE closed
    /\ closes' = IF o = "full" THEN [closes EXCEPT ![c] = @ + 1] ELSE closes
    /\ panic' = IF o = "panic" THEN "send on closed channel" ELSE panic

\* close(client.Send): closing a closed channel panics
Close(c) ==
    /\ closes' = [closes EXCEPT ![c] = @ + 1]
    /\ closed' = [closed EXCEPT ![c] = TRUE]
    /\ panic' = IF closed[c] THEN "close of closed channel" ELSE panic
    /\ UNCHANGED send

\* the loop is back at its select: the locals of the case served are gone
RunSelect ==
    /\ rpc' = "select"
    /\ rcl' = 0
    /\ rmsg' = NoMessage
    /\ rtodo' = {}

\* server.go handleWebSocket: the upgrade succeeded, the client is built and
\* hub.Register(client) waits for the loop to receive it.  Clients are numbered
\* in the order of their upgrades (Client.ID is the time of the upgrade).
HandleWebSocket(c) ==
    /\ Alive
    /\ cpc[c] = "none"
    /\ \A d \in Clients : d < c => cpc[d] # "none"
    /\ cpc' = [cpc EXCEPT ![c] = "register"]
    /\ UNCHANGED <<store, chanVars, clients, muVars, runVars, fanHist, sendVars, rdpc,
                   wrpc, connClosed, drained, preReg, shutdownVars, nbcast>>

\* case client := <-h.register; Register returns and handleWebSocket starts the
\* two pumps
RunRegister(c) ==
    /\ Alive
    /\ rpc = "select"
    /\ cpc[c] = "register"
    /\ rcl' = c
    /\ rpc' = "reg_lock"
    /\ cpc' = [cpc EXCEPT ![c] = "started"]
    /\ wrpc' = [wrpc EXCEPT ![c] = "run"]
    /\ rdpc' = [rdpc EXCEPT ![c] = "read"]
    /\ preReg' = [preReg EXCEPT ![c] = nsub > 0]
    /\ UNCHANGED <<store, chanVars, clients, muVars, rmsg, rtodo, fanHist, sendVars,
                   connClosed, drained, shutdownVars, nbcast>>

\* h.mu.Lock(); h.clients[client] = true; h.mu.Unlock()
RunRegisterAdd ==
    /\ Alive
    /\ rpc = "reg_lock"
    /\ HubCanLock
    /\ clients' = clients \cup {rcl}
    /\ rpc' = "welcome"
    /\ UNCHANGED <<store, chanVars, muVars, rcl, rmsg, rtodo, fanHist, sendVars,
                   pumpVars, connClosed, drained, preReg, shutdownVars, nbcast>>

\* h.SendToClient(client, welcome): the select, then in its default case
\* h.mu.Lock(); delete(h.clients, client); h.mu.Unlock()
RunSendToClient ==
    /\ Alive
    /\ rpc \in {"welcome", "stc_lock"}
    /\ IF rpc = "welcome"
       THEN LET o == Outcome(rcl) IN
            /\ ApplySend(rcl, Message("welcome", rcl), o)
            /\ IF o = "sent" THEN RunSelect
               ELSE /\ rpc' = IF o = "full" THEN "stc_lock" ELSE rpc
                    /\ UNCHANGED <<rcl, rmsg, rtodo>>
            /\ UNCHANGED clients
       ELSE /\ HubCanLock
            /\ clients' = clients \ {rcl}
            /\ RunSelect
            /\ UNCHANGED sendVars
    /\ UNCHANGED <<store, chanVars, muVars, fanHist, pumpVars, connClosed, drained,
                   preReg, shutdownVars, nbcast>>

\* case client := <-h.unregister: if _, ok := h.clients[client]; ok  (read
\* without the lock).  The read pump's deferred function goes on to
\* c.Conn.Close() and the pump ends.
RunUnregister(c) ==
    /\ Alive
    /\ rpc = "select"
    /\ rdpc[c] = "unregister"
    /\ rcl' = IF c \in clients THEN c ELSE 0
    /\ rpc' = IF c \in clients THEN "unreg_lock" ELSE "select"
    /\ rdpc' = [rdpc EXCEPT ![c] = "done"]
    /\ connClosed' = [connClosed EXCEPT ![c] = TRUE]
    /\ UNCHANGED <<store, chanVars, clients, muVars, rmsg, rtodo, fanHist, sendVars,
                   cpc, wrpc, drained, preReg, shutdownVars, nbcast>>

\* h.mu.Lock(); delete(h.clients, client); close(client.Send); h.mu.Unlock()
RunUnregisterDelete ==
    /\ Alive
    /\ rpc = "unreg_lock"
    /\ HubCanLock
    /\ clients' = clients \ {rcl}
    /\ Close(rcl)
    /\ IF closed[rcl] THEN UNCHANGED runVars ELSE RunSelect
    /\ UNCHANGED <<store, chanVars, muVars, fanHist, pumpVars, connClosed, drained,
                   preReg, shutdownVars, nbcast>>

\* case message := <-h.broadcast: h.mu.RLock(); for client := range h.clients
RunBroadcast ==
    /\ Alive
    /\ rpc = "select"
    /\ Len(broadcast) > 0
    /\ HubCanRLock
    /\ rmsg' = Head(broadcast)
    /\ broadcast' = Tail(broadcast)
    /\ hubR' = hubR \cup {"Run"}
    /\ rtodo' = clients
    /\ rstart' = clients
    /\ rfull' = {}
    /\ rsent' = {}
    /\ rpc' = "fanout"
    /\ UNCHANGED <<store, bcap, nsub, firstSub, clients, hubW, rcl, sendVars, pumpVars,
                   connClosed, drained, preReg, shutdownVars, nbcast>>

\* a fan-out that closes a full queue and keeps its client, for comparison
RunFanout_keep ==
    /\ Alive
    /\ rpc = "fanout"
    /\ IF rtodo \cap clients = {}
       THEN /\ hubR' = hubR \ {"Run"}
            /\ RunSelect
            /\ rstart' = {}
            /\ rfull' = {}
            /\ rsent' = {}
            /\ UNCHANGED <<clients, sendVars>>
       ELSE \E c \in rtodo \cap clients :
            LET o == Outcome(c) IN
            /\ ApplySend(c, rmsg, o)
            /\ clients' = clients
            /\ rtodo' = rtodo \ {c}
            /\ rfull' = IF o = "full" THEN rfull \cup {c} ELSE rfull
            /\ rsent' = IF o = "sent" THEN rsent \cup {c} ELSE rsent
            /\ UNCHANGED <<hubR, rpc, rcl, rmsg, rstart>>
    /\ UNCHANGED <<store, chanVars, hubW, pumpVars, connClosed, drained, preReg,
                   shutdownVars, nbcast>>
\* a fan-out that leaves the range at the first full queue, for comparison
RunFanout_break ==
    /\ Alive
    /\ rpc = "fanout"
    /\ IF rtodo \cap clients = {}
       THEN /\ hubR' = hubR \ {"Run"}
            /\ RunSelect
            /\ rstart' = {}
            /\ rfull' = {}
            /\ rsent' = {}
            /\ UNCHANGED <<clients, sendVars>>
       ELSE \E c \in rtodo \cap clients :
            LET o == Outcome(c) IN
            /\ ApplySend(c, rmsg, o)
            /\ clients' = IF o = "full" THEN clients \ {c} ELSE clients
            /\ rtodo' = IF o = "full" THEN {} ELSE rtodo \ {c}
            /\ rfull' = IF o = "full" THEN rfull \cup {c} ELSE rfull
            /\ rsent' = IF o = "sent" THEN rsent \cup {c} ELSE rsent
            /\ UNCHANGED <<hubR, rpc, rcl, rmsg, rstart>>
    /\ UNCHANGED <<store, chanVars, hubW, pumpVars, connClosed, drained, preReg,
                   shutdownVars, nbcast>>
\* one iteration of the range: select { case client.Send <- message: default:
\* close(client.Send); delete(h.clients, client) }; after the last one
\* h.mu.RUnlock().  An entry deleted before the range reaches it is not produced.
RunFanout ==
    /\ Alive
    /\ rpc = "fanout"
    /\ IF rtodo \cap clients = {}
       THEN /\ hubR' = hubR \ {"Run"}
            /\ RunSelect
            /\ rstart' = {}
            /\ rfull' = {}
            /\ rsent' = {}
            /\ UNCHANGED <<clients, sendVars>>
       ELSE \E c \in rtodo \cap clients :
            LET o == Outcome(c) IN
            /\ ApplySend(c, rmsg, o)
            /\ clients' = IF o = "full" THEN clients \ {c} ELSE clients
            /\ rtodo' = rtodo \ {c}
            /\ rfull' = IF o = "full" THEN rfull \cup {c} ELSE rfull
            /\ rsent' = IF o = "sent" THEN rsent \cup {c} ELSE rsent
            /\ UNCHANGED <<hubR, rpc, rcl, rmsg, rstart>>
    /\ UNCHANGED <<store, chanVars, hubW, pumpVars, connClosed, drained, preReg,
                   shutdownVars, nbcast>>

\* case <-ticker.C: the heartbeat message is built (len(h.clients) is read
\* without the lock)
RunTicker ==
    /\ Alive
    /\ rpc = "select"
    /\ nbcast < MaxBroadcasts
    /\ nbcast' = nbcast + 1
    /\ rmsg' = Message("heartbeat", Cardinality(clients))
    /\ rpc' = "hb_send"
    /\ UNCHANGED <<store, chanVars, clients, muVars, rcl, rtodo, fanHist, sendVars,
                   pumpVars, connClosed, drained, preReg, shutdownVars>>

\* h.BroadcastMessage(heartbeat), called by the loop itself: h.broadcast <- msg
RunHeartbeatSend ==
    /\ Alive
    /\ rpc = "hb_send"
    /\ BroadcastMessage(rmsg)
    /\ RunSelect
    /\ UNCHANGED <<store, clients, muVars, fanHist, sendVars, pumpVars, connClosed,
                   drained, preReg, shutdownVars, nbcast>>

(***************************************************************************)
(* Client.ReadPump and Client.WritePump                                    *)
(***************************************************************************)
\* err := c.Conn.ReadJSON(&msg): a frame is decoded and its echo handed to
\* hub.BroadcastMessage, or the read fails (the peer left, the deadline lapsed,
\* the transport was closed) and the deferred hub.unregister <- c waits for the loop
ReadPumpRead(c) ==
    /\ Alive
    /\ rdpc[c] = "read"
    /\ \E ok \in BOOLEAN :
        IF ok
        THEN /\ ~connClosed[c]
             /\ nbcast < MaxBroadcasts
             /\ nbcast' = nbcast + 1
             /\ BroadcastMessage(Message("echo", c))
             /\ UNCHANGED rdpc
        ELSE /\ rdpc' = [rdpc EXCEPT ![c] = "unregister"]
             /\ UNCHANGED <<nbcast, chanVars>>
    /\ UNCHANGED <<store, clients, muVars, runVars, fanHist, sendVars, cpc, wrpc,
                   connClosed, drained, preReg, shutdownVars>>

\* a pump that took the newest message of the queue, for comparison
WritePumpRecv_last(c) ==
    /\ Alive
    /\ wrpc[c] = "run"
    /\ Len(send[c]) > 0
    /\ send' = [send EXCEPT ![c] = SubSeq(@, 1, Len(@) - 1)]
    /\ drained' = [drained EXCEPT ![c] = TRUE]
    /\ \E ok \in BOOLEAN :
        /\ ok => ~connClosed[c]
        /\ wrpc' = [wrpc EXCEPT ![c] = IF ok THEN "run" ELSE "done"]
        /\ connClosed' = [connClosed EXCEPT ![c] = IF ok THEN @ ELSE TRUE]
    /\ UNCHANGED <<store, chanVars, clients, muVars, runVars, fanHist, closed, closes,
                   panic, cpc, rdpc, preReg, shutdownVars, nbcast>>
\* case message, ok := <-c.Send with a message: it is written to the transport;
\* a failed write ends the pump, whose deferred call closes the transport
WritePumpRecv(c) ==
    /\ Alive
    /\ wrpc[c] = "run"
    /\ Len(send[c]) > 0
    /\ send' = [send EXCEPT ![c] = Tail(@)]
    /\ drained' = [drained EXCEPT ![c] = TRUE]
    /\ \E ok \in BOOLEAN :
        /\ ok => ~connClosed[c]
        /\ wrpc' = [wrpc EXCEPT ![c] = IF ok THEN "run" ELSE "done"]
        /\ connClosed' = [connClosed EXCEPT ![c] = IF ok THEN @ ELSE TRUE]
    /\ UNCHANGED <<store, chanVars, clients, muVars, runVars, fanHist, closed, closes,
                   panic, cpc, rdpc, preReg, shutdownVars, nbcast>>

\* case message, ok := <-c.Send on the closed and empty channel: the close frame
\* is written and the pump returns.  case <-ticker.C: a ping that fails ends the
\* pump as well.
WritePumpExit(c) ==
    /\ Alive
    /\ wrpc[c] = "run"
    /\ \E ping \in BOOLEAN :
        ~ping => (closed[c] /\ Len(send[c]) = 0)
    /\ wrpc' = [wrpc EXCEPT ![c] = "done"]
    /\ connClosed' = [connClosed EXCEPT ![c] = TRUE]
    /\ UNCHANGED <<store, chanVars, clients, muVars, runVars, fanHist, sendVars, cpc,
                   rdpc, drained, preReg, shutdownVars, nbcast>>

(***************************************************************************)
(* Hub.Shutdown, called once by StartServer                                *)
(***************************************************************************)
\* h.mu.Lock(); with an empty registry the range has no iteration and the call
\* returns: h.clients = make(map[*Client]bool), the deferred h.mu.Unlock()
ShutdownLock ==
    /\ Alive
    /\ sdpc = "idle"
    /\ HubCanLock
    /\ hubW' = IF clients = {} THEN hubW ELSE "Shutdown"
    /\ sdtodo' = clients
    /\ sdStart' = clients
    /\ sdpc' = IF clients = {} THEN "done" ELSE "send"
    /\ UNCHANGED <<store, chanVars, clients, hubR, runVars, fanHist, sendVars, pumpVars,
                   connClosed, drained, preReg, sdcl, nbcast>>

\* for client := range h.clients { client.Send <- shutdownMsg: a blocking send
ShutdownSend ==
    /\ Alive
    /\ sdpc = "send"
    /\ \E c \in sdtodo :
        /\ Outcome(c) # "full"
        /\ ApplySend(c, Message("shutdown", 0), Outcome(c))
        /\ sdcl' = c
        /\ sdtodo' = sdtodo \ {c}
        /\ sdpc' = IF Outcome(c) = "sent" THEN "close" ELSE sdpc
    /\ UNCHANGED <<store, chanVars, clients, muVars, runVars, fanHist, pumpVars,
                   connClosed, drained, preReg, sdStart, nbcast>>

\* close(client.Send); client.Conn.Close() }; after the last client
\* h.clients = make(map[*Client]bool) and the deferred h.mu.Unlock()
ShutdownClose ==
    /\ Alive
    /\ sdpc = "close"
    /\ Close(sdcl)
    /\ IF closed[sdcl]
       THEN UNCHANGED <<connClosed, sdpc, sdcl, clients, hubW>>
       ELSE /\ connClosed' = [connClosed EXCEPT ![sdcl] = TRUE]
            /\ sdcl' = 0
            /\ sdpc' = IF sdtodo = {} THEN "done" ELSE "send"
            /\ clients' = IF sdtodo = {} THEN {} ELSE clients
            /\ hubW' = IF sdtodo = {} THEN "free" ELSE hubW
    /\ UNCHANGED <<store, chanVars, hubR, runVars, fanHist, pumpVars, drained, preReg,
                   sdtodo, sdStart, nbcast>>

(***************************************************************************)
(* The state after StartServer has built the hub and seeded the store.     *)
(***************************************************************************)
InitState(cap, table, nid, now) ==
    /\ users = table
    /\ nextID = nid
    /\ storeW = 0
    /\ clock = now
    /\ hpc = [h \in Handlers |-> "idle"]
    /\ hreq = [h \in Handlers |-> NoRequest]
    /\ huser = [h \in Handlers |-> NoUser]
    /\ hexists = [h \in Handlers |-> FALSE]
    /\ hresp = [h \in Handlers |-> NoResponse]
    /\ nreq = 0
    /\ assigned = SetToBag(1 .. nid - 1)
    /\ returned = EmptyBag
    /\ lastCreated = IF nid > SeedNextID THEN nid - 1 ELSE 0
    /\ hprev = [h \in Handlers |-> 0]
    /\ fresh = NoFresh
    /\ hfresh = [h \in Handlers |-> NoFresh]
    /\ overlap = FALSE
    /\ batchIds = 0
    /\ broadcast = << >>
    /\ bcap = cap
    /\ clients = {}
    /\ hubW = "free"
    /\ hubR = {}
    /\ rpc = "select"
    /\ rcl = 0
    /\ rmsg = NoMessage
    /\ rtodo = {}
    /\ send = [c \in Clients |-> << >>]
    /\ closed = [c \in Clients |-> FALSE]
    /\ connClosed = [c \in Clients |-> FALSE]
    /\ cpc = [c \in Clients |-> "none"]
    /\ rdpc = [c \in Clients |-> "off"]
    /\ wrpc = [c \in Clients |-> "off"]
    /\ sdpc = "idle"
    /\ sdcl = 0
    /\ sdtodo = {}
    /\ panic = "none"
    /\ nbcast = 0
    /\ nsub = 0
    /\ firstSub = NoMessage
    /\ preReg = [c \in Clients |-> FALSE]
    /\ drained = [c \in Clients |-> FALSE]
    /\ closes = [c \in Clients |-> 0]
    /\ sdStart = {}
    /\ rstart = {}
    /\ rfull = {}
    /\ rsent = {}

\* the table with store.nextID = 6, as initTestData leaves it
InitTable(cap, table) == InitState(cap, table, SeedNextID, 0)

\* the store as initTestData seeds it
InitWith(cap) == InitTable(cap, initTestData)

\* the hub as NewHub builds it
Init == InitWith(BroadcastCap)
\* the same program with a smaller buffer for h.broadcast
InitSmallCap == InitWith(SmallBroadcastCap)

\* the request handlers of the store; their user_created messages wait in
\* h.broadcast
NextStore ==
    \/ \E h \in Handlers :
        \/ CreateUserBegin(h) \/ CreateUserLock(h) \/ CreateUserInsert(h)
        \/ CreateUserIncr(h) \/ CreateUserPublish(h) \/ CreateUserRespond(h)
        \/ GetUserBegin(h) \/ GetUserRead(h) \/ GetUserRespond(h)
        \/ DeleteUserBegin(h) \/ DeleteUserLocked(h) \/ DeleteUserRespond(h)
        \/ BatchCreateBegin(h) \/ BatchCreateLocked(h)
        \/ BatchDeleteBegin(h) \/ BatchDeleteLocked(h)
        \/ UpdateUserBegin(h) \/ UpdateUserLocked(h) \/ UpdateUserRespond(h)
        \/ SetActiveBegin(h) \/ SetActiveLocked(h)
    \/ Tick

SpecStore == Init /\ [][NextStore]_vars

\* the read-only handlers getUsers and searchUsers, on the tables that deletions
\* leave of the seeded one: users 2 and 5 are gone, and any of the others
QueryIds == {1, 3, 4}
QueryTables == SUBSET QueryIds
\* the table after users 2, 3 and 5 were deleted and createUser stored a user
\* one tick after the start: she is as old as user 4 and was created later
LateUser == User(SeedNextID, "Alice", EmailGood, 28, "USA", TRUE, 1, 1)
LateTable ==
    [id \in {1, 4, SeedNextID} |-> IF id = SeedNextID THEN LateUser ELSE initTestData[id]]
InitQuery ==
    \/ \E S \in QueryTables : InitTable(BroadcastCap, [id \in S |-> initTestData[id]])
    \/ InitState(BroadcastCap, LateTable, SeedNextID + 1, 1)
NextQuery ==
    \E h \in Handlers :
        \/ GetUsersBegin(h) \/ GetUsers(h)
        \/ SearchUsersBegin(h) \/ SearchUsers(h)

SpecQuery == InitQuery /\ [][NextQuery]_vars

\* the hub: connections, the loop, the pumps and Shutdown
NextHub ==
    \/ \E c \in Clients :
        \/ HandleWebSocket(c) \/ RunRegister(c) \/ RunUnregister(c)
        \/ ReadPumpRead(c)
        \/ WritePumpRecv(c) \/ WritePumpExit(c)
    \/ RunRegisterAdd \/ RunSendToClient
    \/ RunUnregisterDelete
    \/ RunBroadcast \/ RunFanout
    \/ RunTicker \/ RunHeartbeatSend
    \/ ShutdownLock \/ ShutdownSend \/ ShutdownClose

SpecHub == Init /\ [][NextHub]_vars

\* the hub with the scaled-down h.broadcast
SpecHubSmallCap == InitSmallCap /\ [][NextHub]_vars

(***************************************************************************)
(* Properties of the user store, checked under SpecStore.                  *)
(***************************************************************************)
NoCreateInFlight == \A h \in Handlers : ~CreateInFlight(h)

\* C1: createUser requests running at the same time on a store whose counter is
\* k return distinct ids, and once the N of them have returned the ids they
\* returned are exactly k, k+1, ..., k+N-1 (k is the counter StartServer leaves,
\* N the number of createUser requests that returned; batchCreateUsers, which
\* draws on the same counter, has handed out no id).
C1_ConcurrentCreateIds ==
    batchIds = 0 =>
        /\ \A id \in BagToSet(returned) : CopiesIn(id, returned) = 1
        /\ NoCreateInFlight =>
               BagToSet(returned) = SeedNextID .. (SeedNextID + BagCardinality(returned) - 1)

\* two createUser requests were in flight together and both have returned
C1_Witness ==
    /\ overlap
    /\ batchIds = 0
    /\ NoCreateInFlight
    /\ BagCardinality(returned) >= 2

\* C2: no id is assigned to two users; the counter is greater than every id
\* ever assigned whenever the store's lock is free (inside createUser's critical
\* section, between the insertion and the increment, it equals the id just
\* assigned); an id whose user was deleted is never assigned again.
C2_IdsNeverReused ==
    \A id \in BagToSet(assigned) :
        /\ CopiesIn(id, assigned) = 1
        /\ id <= nextID
        /\ storeW = 0 => id < nextID

\* a createUser has just inserted its user while an earlier id is free again
C2_Witness ==
    \E h \in Handlers :
        /\ hpc[h] = "c_incr"
        /\ huser[h].ID \in DOMAIN users
        /\ \E id \in BagToSet(assigned) : id >= SeedNextID /\ id \notin DOMAIN users

\* C3: a create that begins after another create has returned returns a greater
\* id: every id in a 201 response is greater than every id createUser had
\* returned when the request was taken.
C3_SequentialIdsIncrease ==
    \A h \in Handlers :
        (hpc[h] = "idle" /\ hresp[h].status = StatusCreated) =>
            \A i \in DOMAIN hresp[h].users : hresp[h].users[i].ID > hprev[h]

\* a createUser taken after an earlier createUser returned has returned itself
C3_Witness ==
    \E h \in Handlers :
        /\ hpc[h] = "idle"
        /\ hresp[h].status = StatusCreated
        /\ Len(hresp[h].users) = 1
        /\ hprev[h] >= SeedNextID

\* C4: a getUser(id) taken after createUser returned id, with no other
\* operation on id since the creation, answers 200 with the record createUser
\* returned, field for field.
C4_GetAfterCreate ==
    \A h \in Handlers :
        (hpc[h] = "idle" /\ hfresh[h] # NoFresh) =>
            hresp[h] = Response(StatusOK, <<hfresh[h].rec>>, << >>)

\* such a getUser has answered
C4_Witness ==
    \E h \in Handlers :
        /\ hpc[h] = "idle"
        /\ hfresh[h] # NoFresh
        /\ hresp[h].status = StatusOK
        /\ hfresh[h].rec.ID >= SeedNextID

(***************************************************************************)
(* Properties of the hub, checked under SpecHub.                           *)
(***************************************************************************)
IsPrefix(p, q) == Len(p) <= Len(q) /\ \A i \in 1 .. Len(p) : p[i] = q[i]
Last(q) == q[Len(q)]

\* C5: the first message the hub enqueues on a client's queue is the welcome
\* message: as long as nothing has been taken from a queue, its head, if it
\* has one, is the welcome message.
C5_WelcomeFirst ==
    \A c \in Clients :
        (~drained[c] /\ send[c] # << >>) => Head(send[c]) = Message("welcome", c)

\* C6: Register(c) returned, then one message X was handed to BroadcastMessage;
\* nothing else was broadcast, Shutdown was not called, c was not unregistered
\* and nothing was taken from c's queue.  Then c's queue grows as a prefix of
\* [welcome, X], and it is exactly [welcome, X] once the loop has fanned X out.
C6_Scenario(c) ==
    /\ cpc[c] = "started"
    /\ ~preReg[c]
    /\ nsub = 1
    /\ nbcast = 1
    /\ sdpc = "idle"
    /\ rdpc[c] # "done"
    /\ ~drained[c]
C6_FannedOut == broadcast = << >> /\ rpc # "fanout"
C6_WelcomeThenBroadcast ==
    \A c \in Clients :
        C6_Scenario(c) =>
            /\ IsPrefix(send[c], <<Message("welcome", c), firstSub>>)
            /\ C6_FannedOut => send[c] = <<Message("welcome", c), firstSub>>

\* the scenario has run to its end for some client
C6_Witness ==
    \E c \in Clients :
        /\ C6_Scenario(c)
        /\ C6_FannedOut
        /\ rpc = "select"
        /\ Len(send[c]) = 2

\* C7: an iteration of the fan-out that finds the client's queue full deletes
\* the client from the registry and closes its queue without enqueueing, and
\* the loop goes on (the fan-out is never without a next step); an iteration
\* that finds room enqueues the message and keeps the client; when the range
\* ends, every client registered at its start was either dropped as full or
\* was handed the message.
C7_Iteration(c) == rpc = "fanout" /\ rpc' = "fanout" /\ c \in rtodo /\ c \notin rtodo'
C7_FanoutDropsFull ==
    [][/\ (rpc = "fanout" /\ Alive) => ENABLED RunFanout
       /\ \A c \in Clients :
            C7_Iteration(c) =>
                /\ (~closed[c] /\ Len(send[c]) = SendCap) =>
                       /\ c \notin clients'
                       /\ closed'[c]
                       /\ send'[c] = send[c]
                       /\ panic' = panic
                       /\ clients' = clients \ {c}
                /\ (~closed[c] /\ Len(send[c]) < SendCap) =>
                       /\ send'[c] = Append(send[c], rmsg)
                       /\ ~closed'[c]
                       /\ clients' = clients
       /\ (rpc = "fanout" /\ rpc' = "select") => rstart \subseteq (rfull \cup rsent)
      ]_vars

\* in one fan-out a full client was dropped and another client got the message
C7_Witness ==
    /\ rpc = "fanout"
    /\ rfull # {}
    /\ rsent # {}

\* C8: the hub never sends on a closed client queue.
C8_NoSendOnClosed == panic # "send on closed channel"

\* C9: each client's queue is closed at most once.
C9_ClosedAtMostOnce == \A c \in Clients : closes[c] <= 1

\* C10: once Shutdown has returned, every client that was registered when it
\* took the lock has its queue and its transport closed, and whatever is left
\* in its queue ends with the shutdown message.
C10_ShutdownLast ==
    sdpc = "done" =>
        \A c \in sdStart :
            /\ closed[c]
            /\ connClosed[c]
            /\ send[c] # << >> => Last(send[c]) = Message("shutdown", 0)

\* Shutdown waits in client.Send <- shutdownMsg on queues that are full and
\* whose write pumps have returned: nothing receives from them any more
ShutdownStuck ==
    /\ sdpc = "send"
    /\ \A c \in sdtodo : Outcome(c) = "full" /\ wrpc[c] = "done"

\* once Shutdown is stuck it stays stuck
ShutdownStuckForever == [][ShutdownStuck => ShutdownStuck']_vars

\* C11: a Shutdown that has started always returns: it is never left waiting
\* on a send that nothing can complete.
C11_ShutdownNeverStuck == ~ShutdownStuck

\* C12: once Shutdown has returned the registry stays empty: no client is
\* added to it again.
C12_NoClientAfterShutdown == sdpc = "done" => clients = {}

\* the loop waits in h.broadcast <- heartbeat on a full buffer that only the
\* loop itself empties
LoopWaitsOnBroadcast == rpc = "hb_send" /\ Len(broadcast) >= bcap
\* the loop waits for h.mu while Shutdown, which holds it, is stuck
LoopWaitsOnLock == rpc \in {"reg_lock", "unreg_lock", "stc_lock"} /\ ShutdownStuck

\* once the loop waits on its own full buffer it waits forever
LoopWaitsForever == [][LoopWaitsOnBroadcast => LoopWaitsOnBroadcast']_vars

\* C13: the loop never waits forever, neither for the hub lock nor in a send
\* to its own broadcast queue.
C13_LoopNeverBlocked == ~LoopWaitsOnBroadcast /\ ~LoopWaitsOnLock

\* C14: a heartbeat the timer case has built is handed to h.broadcast (and so
\* reaches the fan-out): the send of the heartbeat always finds room.
C14_HeartbeatAccepted ==
    (rpc = "hb_send" /\ rmsg.Type = "heartbeat") => BroadcastHasRoom

\* C15: a client's queue changes only by a message appended at its tail or by
\* the running write pump taking its head: messages leave in the order they
\* were enqueued, none twice and none skipped.
C15_WritePumpFifo ==
    [][\A c \in Clients :
          send'[c] # send[c] =>
              \/ /\ wrpc[c] = "run"
                 /\ send[c] # << >>
                 /\ send'[c] = Tail(send[c])
              \/ /\ Len(send'[c]) = Len(send[c]) + 1
                 /\ SubSeq(send'[c], 1, Len(send[c])) = send[c]
      ]_vars

\* the pump took the welcome of a queue that held a later message behind it
C15_Witness ==
    \E c \in Clients :
        /\ drained[c]
        /\ sdpc = "idle"
        /\ send[c] # << >>
        /\ Head(send[c]).Type \in {"echo", "heartbeat"}

\* C16: a message accepted by BroadcastMessage is fanned out: it is never left
\* in h.broadcast behind a loop that waits forever.
C16_AcceptedIsFannedOut ==
    \A i \in DOMAIN broadcast :
        broadcast[i].Type = "echo" => ~LoopWaitsOnBroadcast

(***************************************************************************)
(* Properties of updateUser, activateUser, deactivateUser and deleteUser,  *)
(* checked under SpecStore.                                                *)
(***************************************************************************)
\* handler h executes the critical section of a successful updateUser
UpdateSucceeds(h) ==
    /\ hpc[h] = "u_lock"
    /\ hpc'[h] = "u_respond"
    /\ hreq[h].id \in DOMAIN users
    /\ UpdateValid(hreq[h])

\* C17: a successful update changes the supplied fields (a non-empty name,
\* e-mail or country, a non-nil age) to the supplied values and leaves id,
\* active, created_at, every unsupplied field, every other user and the id
\* counter as they were; the record it answers with is the stored one.
C17_UpdateFrame ==
    [][\A h \in Handlers :
          UpdateSucceeds(h) =>
              LET id == hreq[h].id
                  r == hreq[h]
                  old == users[id]
                  new == users'[id]
              IN /\ DOMAIN users' = DOMAIN users
                 /\ \A k \in DOMAIN users \ {id} : users'[k] = users[k]
                 /\ nextID' = nextID
                 /\ new.ID = old.ID
                 /\ new.Active = old.Active
                 /\ new.CreatedAt = old.CreatedAt
                 /\ new.Name = (IF r.Name = "" THEN old.Name ELSE r.Name)
                 /\ new.Email = (IF r.Email = << >> THEN old.Email ELSE r.Email)
                 /\ new.Age = (IF r.Age = << >> THEN old.Age ELSE r.Age[1])
                 /\ new.Country = (IF r.Country = "" THEN old.Country ELSE r.Country)
                 /\ huser'[h] = new
      ]_vars

\* an update that supplied a name and no country has been stored
C17_Witness ==
    \E h \in Handlers :
        /\ hpc[h] = "u_respond"
        /\ hexists[h]
        /\ UpdateValid(hreq[h])
        /\ hreq[h].Name # ""
        /\ hreq[h].Country = ""
        /\ users[hreq[h].id].Name = hreq[h].Name
        /\ users[hreq[h].id].Country # ""

\* C18: every update, activation or deactivation that rewrites a record gives
\* it an updated_at strictly later than the one it had.
C18_UpdatedAtAdvances ==
    [][\A id \in DOMAIN users \cap DOMAIN users' :
          users'[id] # users[id] => users'[id].UpdatedAt > users[id].UpdatedAt
      ]_vars

\* C19: every stored user has created_at <= updated_at, and a stored user's
\* created_at never changes.
C19_CreatedBeforeUpdated ==
    [][/\ \A id \in DOMAIN users' : users'[id].CreatedAt <= users'[id].UpdatedAt
       /\ \A id \in DOMAIN users \cap DOMAIN users' :
              users'[id].CreatedAt = users[id].CreatedAt
      ]_vars

\* a record was rewritten at a later time than it was created
C19_Witness == \E id \in DOMAIN users : users[id].UpdatedAt > users[id].CreatedAt

\* the ids that were assigned and whose users have been deleted
Gone == BagToSet(assigned) \ DOMAIN users

\* C20: once an id has been deleted it stays deleted; a getUser or deleteUser
\* that looks it up afterwards finds nothing and answers 404, and that
\* deleteUser leaves the table and the id counter as they were.
C20_DeletedStaysDeleted ==
    [][/\ Gone \subseteq (BagToSet(assigned') \ DOMAIN users')
       /\ \A h \in Handlers :
            /\ (hpc[h] = "d_lock" /\ hpc'[h] = "d_respond" /\ hreq[h].id \in Gone) =>
                   (users' = users /\ nextID' = nextID /\ ~hexists'[h])
            /\ (hpc[h] = "g_read" /\ hpc'[h] = "g_respond" /\ hreq[h].id \in Gone) =>
                   ~hexists'[h]
            /\ (hpc[h] \in {"d_respond", "g_respond"} /\ hpc'[h] = "idle" /\ ~hexists[h]) =>
                   hresp'[h] = Response(StatusNotFound, << >>, << >>)
      ]_vars

\* a second deleteUser of a deleted id has found nothing
C20_Witness ==
    \E h \in Handlers :
        /\ hpc[h] = "d_respond"
        /\ ~hexists[h]
        /\ hreq[h].id \in Gone

(***************************************************************************)
(* Rejected requests and the range of the stored ages.                     *)
(***************************************************************************)
\* the step in which updateUser, under the lock, finds the id absent or the body
\* invalid
UpdateRejects(h) ==
    /\ hpc[h] = "u_lock"
    /\ hpc'[h] = "u_respond"
    /\ (hreq[h].id \notin DOMAIN users \/ ~UpdateValid(hreq[h]))

\* the step in which a handler writes a 400 or 404 response
WritesError(h) ==
    /\ hpc'[h] = "idle"
    /\ (hpc[h] # "idle" \/ nreq' # nreq)
    /\ hresp'[h].status \in {StatusBadRequest, StatusNotFound}

\* C21: no step of a rejected call changes the store: the step that takes a
\* request never writes, and the step in which createUser or updateUser
\* rejects its input, or updateUser, activateUser or deactivateUser finds the
\* id absent, and the step that answers 400 or 404, leave the user table and
\* nextID exactly as they were, also when the name of the rejected update was
\* valid and only a later field was not.
C21_RejectionKeepsStore ==
    [][((nreq' # nreq) \/ (\E h \in Handlers : UpdateRejects(h) \/ WritesError(h)))
         => (users' = users /\ nextID' = nextID)]_vars

\* an update whose name was valid and whose age was not has been rejected
\* under the lock, for a user that exists
C21_Witness ==
    \E h \in Handlers :
        /\ hpc[h] = "u_respond"
        /\ hexists[h]
        /\ hreq[h].Name # ""
        /\ ~UpdateValid(hreq[h])

\* C22: every stored user has an age between 0 and 150 inclusive, whichever
\* handler wrote the record.
C22_AgesInRange == \A id \in DOMAIN users : users[id].Age >= 0 /\ users[id].Age <= 150

\* C25: once createUser has returned an id, the id 1 is among the returned ones:
\* the first user created after the start of the server receives id 1.
C25_FirstCreatedIsOne == (returned # EmptyBag) => BagIn(1, returned)

\* the step in which activateUser or deactivateUser runs under the lock
SetActiveRuns(h) == hpc[h] = "a_lock" /\ hpc'[h] = "idle"

\* C26: activateUser (deactivateUser) on a stored id sets Active to TRUE
\* (FALSE) whatever it was before, so a second identical call leaves the same
\* flag, stamps UpdatedAt with the time of the call, leaves ID, Name, Email,
\* Age, Country and CreatedAt of the record, every other record and nextID as
\* they were and answers 200 with the new record; on an absent id it answers
\* 404 and changes nothing.
C26_SetActiveFrame ==
    [][\A h \in Handlers : SetActiveRuns(h) =>
        LET id == hreq[h].id IN
        /\ nextID' = nextID
        /\ DOMAIN users' = DOMAIN users
        /\ \A k \in DOMAIN users \ {id} : users'[k] = users[k]
        /\ IF id \in DOMAIN users
           THEN /\ users'[id].Active = (hreq[h].op = "activate")
                /\ users'[id].UpdatedAt = clock
                /\ users'[id].ID = users[id].ID
                /\ users'[id].Name = users[id].Name
                /\ users'[id].Email = users[id].Email
                /\ users'[id].Age = users[id].Age
                /\ users'[id].Country = users[id].Country
                /\ users'[id].CreatedAt = users[id].CreatedAt
                /\ hresp'[h] = Response(StatusOK, <<users'[id]>>, << >>)
           ELSE hresp'[h].status = StatusNotFound
      ]_vars

\* a user that was active at the start has been deactivated at two different
\* times: both answers carry Active = FALSE
C26_Witness ==
    \E id \in DOMAIN users :
        /\ ~users[id].Active
        /\ hresp[1] = Response(StatusOK, <<[users[id] EXCEPT !.UpdatedAt = 0]>>, << >>)
        /\ hresp[2] = Response(StatusOK, <<users[id]>>, << >>)
        /\ users[id].UpdatedAt = 1
        /\ id \in DOMAIN initTestData
        /\ initTestData[id].Active
        /\ [users[id] EXCEPT !.Active = TRUE, !.UpdatedAt = 0] = initTestData[id]

(***************************************************************************)
(* Concurrent mutations of one record.                                     *)
(***************************************************************************)
\* updateUser has stored its record and has not returned yet
UpdateApplied(h) == hpc[h] = "u_respond" /\ hexists[h] /\ UpdateValid(hreq[h])

\* the stored record of id carries every field the call of h supplied
Carries(id, h) ==
    /\ hreq[h].Name # "" => users[id].Name = hreq[h].Name
    /\ hreq[h].Email # << >> => users[id].Email = hreq[h].Email
    /\ hreq[h].Age # << >> => users[id].Age = hreq[h].Age[1]
    /\ hreq[h].Country # "" => users[id].Country = hreq[h].Country

\* the fields of two update bodies do not overlap
Disjoint(a, b) ==
    /\ ~(a.Name # "" /\ b.Name # "")
    /\ ~(a.Email # << >> /\ b.Email # << >>)
    /\ ~(a.Age # << >> /\ b.Age # << >>)
    /\ ~(a.Country # "" /\ b.Country # "")

\* two overlapping updateUser calls on one stored id with disjoint fields have
\* both stored: the record carries the fields of both
BothUpdatesKept ==
    \A h \in Handlers : \A g \in Handlers \ {h} :
        (/\ UpdateApplied(h) /\ UpdateApplied(g)
         /\ hreq[h].id = hreq[g].id
         /\ hreq[h].id \in DOMAIN users
         /\ Disjoint(hreq[h], hreq[g]))
        => (Carries(hreq[h].id, h) /\ Carries(hreq[h].id, g))

\* C27: no update is lost.  After every step, two updateUser calls that
\* overlap, set disjoint fields of the same stored user and have both stored
\* their record leave a record with both changes; a deactivateUser or
\* activateUser that runs while an updateUser on the same id has stored and not
\* yet returned keeps the fields that update supplied and sets the flag; and
\* an updateUser keeps the Active flag stored before it.
C27_NoLostUpdate ==
    [][/\ BothUpdatesKept'
       /\ \A h \in Handlers : \A g \in Handlers \ {h} :
            (/\ SetActiveRuns(g) /\ UpdateApplied(h)
             /\ hreq[g].id = hreq[h].id /\ hreq[g].id \in DOMAIN users)
            => /\ users'[hreq[g].id].Active = (hreq[g].op = "activate")
               /\ (Carries(hreq[h].id, h))'
       /\ \A h \in Handlers :
            (hpc[h] = "u_lock" /\ hpc'[h] = "u_respond" /\ hreq[h].id \in DOMAIN users)
            => users'[hreq[h].id].Active = users[hreq[h].id].Active
      ]_vars

\* two updateUser calls on the same user, one setting only the name and the
\* other only the country, have both stored and neither has returned
C27_Witness ==
    \E h \in Handlers : \E g \in Handlers \ {h} :
        /\ UpdateApplied(h) /\ UpdateApplied(g)
        /\ hreq[h].id = hreq[g].id
        /\ hreq[h].Name # "" /\ hreq[h].Country = ""
        /\ hreq[g].Name = "" /\ hreq[g].Country # ""
        /\ users[hreq[h].id].Name = hreq[h].Name
        /\ users[hreq[h].id].Country = hreq[g].Country

(***************************************************************************)
(* Messages the request handlers publish to the hub.                       *)
(***************************************************************************)
\* the step of createUser between the unlock and the response
Publishes(h) == hpc[h] = "c_publish" /\ hpc'[h] = "c_respond"

\* C28: under SpecStore h.broadcast changes only when a createUser that has
\* stored its user and released the store lock publishes, and then by exactly
\* one user_created message for that user; a createUser writes its 201
\* response only after that step, so every successful create has published
\* once, and a rejected create and every other handler publish nothing.
C28_OnlyCreatePublishes ==
    [][/\ \A h \in Handlers : Publishes(h) =>
            /\ broadcast' = Append(broadcast, Message("user_created", huser[h].ID))
            /\ storeW # h
            /\ huser[h].ID \in DOMAIN users \/ huser[h].ID \in BagToSet(assigned)
       /\ (broadcast' # broadcast) => \E h \in Handlers : Publishes(h)
       /\ \A h \in Handlers :
            (hresp'[h].status = StatusCreated /\ hresp'[h] # hresp[h]
             /\ hreq[h].op = "create")
            => (hpc[h] = "c_respond" /\ nsub' = nsub)
       /\ nsub' = BagCardinality(returned') +
                  Cardinality({h \in Handlers : hpc'[h] = "c_respond"})
      ]_vars

\* two creates have been answered, one has been rejected, and h.broadcast
\* holds the two user_created messages
C28_Witness ==
    /\ BagCardinality(returned) = 2
    /\ Len(broadcast) = 2
    /\ \E h \in Handlers : hresp[h].status = StatusBadRequest
    /\ \A i \in DOMAIN broadcast : broadcast[i].Type = "user_created"

(***************************************************************************)
(* Echo broadcasts and the removal of failed clients.                      *)
(***************************************************************************)
\* C29: every echo a read pump has handed to h.broadcast is enqueued on the
\* registered clients with room, the sender included: an echo whose sender is
\* registered with room in its queue never waits in h.broadcast behind a loop
\* that has stopped for good (waiting on itself, or ended by a panic).
C29_EchoReachesSender ==
    \A i \in DOMAIN broadcast :
        (/\ broadcast[i].Type = "echo"
         /\ broadcast[i].Data \in clients
         /\ Outcome(broadcast[i].Data) = "sent")
        => (Alive /\ ~LoopWaitsOnBroadcast)

\* the read pump of c waits on hub.unregister <- c while the loop, its only
\* receiver, waits on its own full h.broadcast
UnregisterStuck(c) == rdpc[c] = "unregister" /\ LoopWaitsOnBroadcast

\* once the read pump waits on a loop that waits on itself, it waits forever
UnregisterWaitsForever ==
    [][\A c \in Clients : UnregisterStuck(c) => UnregisterStuck(c)']_vars

\* C30: a client whose transport failed is eventually unregistered and both
\* of its pumps end: its read pump never waits on hub.unregister <- c for a
\* loop that cannot receive any more.
C30_FailedClientCleaned == \A c \in Clients : ~UnregisterStuck(c)

(***************************************************************************)
(* Properties of getUsers and searchUsers, checked under SpecQuery.        *)
(***************************************************************************)
\* the step in which getUsers runs
GetUsersRuns(h) == hpc[h] = "l_run" /\ hpc'[h] = "idle"

\* y >= n for the digits y of a natural number and a small natural number n
DigitsGe(y, n) ==
    \/ \E i \in 3 .. Len(y) : y[i] # 0
    \/ y[2] >= 16384
    \/ y[2] * IntBase + y[1] >= n

\* the elements of all at the positions [(p-1)*perPage, min(total, p*perPage)),
\* computed without wrap-around
Window(all, p, perPage) ==
    LET first == MulLimbs(Dec(p), perPage, 1, 0)
        total == Len(all)
        from == first[2] * IntBase + first[1]
    IN IF DigitsGe(first, total) THEN << >>
       ELSE SubSeq(all, from + 1,
                   IF from + perPage > total THEN total ELSE from + perPage)

\* C23: one call of getUsers with page p >= 1 and perPage in 1..100 answers
\* without error, with total equal to the size of the table and with exactly
\* the elements at the positions [(p-1)*perPage, min(total, p*perPage)) of a
\* sequence of all the users; the list is empty when (p-1)*perPage >= total.
C23_PageWindow ==
    [][\A h \in Handlers : GetUsersRuns(h) =>
        LET p == PageOf(hreq[h].page)
            perPage == PerPageOf(hreq[h].perPage)
        IN /\ hresp'[h].status = StatusOK
           /\ hresp'[h].total = Cardinality(DOMAIN users)
           /\ \E order \in Perms(DOMAIN users) :
                hresp'[h].users = Window([i \in DOMAIN order |-> users[order[i]]],
                                         p, perPage)
      ]_vars

\* the step in which searchUsers runs
SearchRuns(h) == hpc[h] = "s_run" /\ hpc'[h] = "idle"

\* the stored users that satisfy every filter of req that is present
Wanted(req) ==
    {id \in DOMAIN users :
        /\ req.q # << >> =>
              \/ Contains(ToLower(Chars(users[id].Name)), ToLower(req.q))
              \/ Contains(ToLower(users[id].Email), ToLower(req.q))
        /\ req.country # "" => users[id].Country = req.country
        /\ req.active # "" => users[id].Active = (req.active = "true")}

\* C24: searchUsers, given no active filter or a boolean one, returns exactly
\* the stored users whose lower-cased name or e-mail contains the lower-cased
\* query (when there is one), whose country equals the given country (when
\* there is one) and whose active flag equals the given boolean (when there is
\* one), each once; an absent filter excludes nobody.
C24_SearchFilters ==
    [][\A h \in Handlers :
          (SearchRuns(h) /\ hreq[h].active \in {"", "true", "false"}) =>
              LET found == hresp'[h].users IN
              /\ hresp'[h].status = StatusOK
              /\ {found[i] : i \in DOMAIN found} = {users[id] : id \in Wanted(hreq[h])}
              /\ Len(found) = Cardinality(Wanted(hreq[h]))
              /\ hresp'[h].count = Len(found)
      ]_vars

\* a search over a table of three users has returned the one active user from
\* the USA, and another search has returned two users
C24_Witness ==
    /\ DOMAIN users = QueryIds
    /\ \E h \in Handlers : \E g \in Handlers \ {h} :
        /\ "count" \in DOMAIN hresp[h]
        /\ hresp[h].count = 1
        /\ hresp[h].users[1].Country = "USA"
        /\ hresp[h].users[1].Active
        /\ "count" \in DOMAIN hresp[g]
        /\ hresp[g].count = 2

(***************************************************************************)
(* The locks.                                                              *)
(***************************************************************************)
\* C31: h.clients is modified only under the write lock: no step changes the
\* set while a goroutine holds h.mu in shared mode only.
C31_WritesUnderWriteLock == [][clients' # clients => hubR = {}]_vars

\* C32: h.mu is not held across an operation that can block or that touches a
\* transport: while the write lock is held, Shutdown stands neither before its
\* send on client.Send nor before close(client.Send) and client.Conn.Close().
C32_NoBlockingUnderLock == hubW # "free" => sdpc \notin {"send", "close"}

\* the handler of h takes the store lock and, with the unlock deferred, writes
\* its response before it returns: lock and response are one step
RespondsUnderLock(h) ==
    /\ hpc[h] \in {"a_lock", "bc_lock", "bd_lock", "l_run", "s_run"}
    /\ hpc'[h] = "idle"
    /\ hresp'[h].status # 0

\* C33: no handler writes its response while it holds the store lock.
C33_RespondsAfterUnlock == [][\A h \in Handlers : ~RespondsUnderLock(h)]_vars

\* C37: the user_created messages wait in h.broadcast, and so are fanned out,
\* in increasing order of the id of the created user.
C37_PublishedInIdOrder ==
    \A i \in DOMAIN broadcast : \A j \in DOMAIN broadcast :
        (/\ i < j
         /\ broadcast[i].Type = "user_created"
         /\ broadcast[j].Type = "user_created")
        => broadcast[i].Data < broadcast[j].Data

(***************************************************************************)
(* The ids of one batch.                                                   *)
(***************************************************************************)
BatchCreateRuns(h) == hpc[h] = "bc_lock" /\ hpc'[h] = "idle"
ValidEntry(e) ==
    e.Name # "" /\ e.Email # << >> /\ EmailRegexMatch(ToLower(e.Email))

Positive(param) == param.kind = "int" /\ ~IsNeg(param.val) /\ ~IsZero(param.val)

\* what the answer of h shows of the values getUsers computed with: page >= 1,
\* 1 for a page that is missing, not a number, zero or negative; per_page in
\* 1..100, 10 for a per_page that is missing, not a number, not positive or
\* above 100; total_pages the ceiling of total / per_page
ComputedInRange(h) ==
    LET resp == hresp'[h]
        req == hreq[h]
    IN /\ ~IsNeg(resp.page) /\ ~IsZero(resp.page)
       /\ resp.page = IF Positive(req.page) THEN req.page.val ELSE GoInt(1)
       /\ resp.perPage \in 1 .. 100
       /\ resp.perPage = IF Positive(req.perPage) /\ ~DigitsGe(req.perPage.val, 101)
                         THEN Val(req.perPage.val) ELSE 10
       /\ resp.total = Cardinality(DOMAIN users)
       /\ resp.totalPages * resp.perPage >= resp.total
       /\ (resp.totalPages - 1) * resp.perPage < resp.total \/ resp.total = 0

\* C35: getUsers always computes with page >= 1 and per_page in 1..100, with
\* the fall-backs 1 and 10, and always answers: total_pages is defined and
\* the slice allUsers[start:end] has no negative bound.
C35_ListParameters ==
    [][\A h \in Handlers : GetUsersRuns(h) =>
        /\ "panic" \notin DOMAIN hresp'[h]
        /\ ComputedInRange(h)]_vars

\* whenever getUsers answers, it has computed with values in range
AnswersComputedInRange ==
    [][\A h \in Handlers : (GetUsersRuns(h) /\ "panic" \notin DOMAIN hresp'[h])
        => ComputedInRange(h)]_vars

(***************************************************************************)
(* The sort of getUsers.                                                   *)
(***************************************************************************)
\* the key of u is at most the key of v
KeyLeq(u, v, sortBy) ==
    CASE sortBy = "name" -> ~StrLess(Chars(v.Name), Chars(u.Name))
      [] sortBy = "age" -> u.Age <= v.Age
      [] OTHER -> u.CreatedAt <= v.CreatedAt
\* all is non-decreasing in the key, non-increasing for order = "desc"
Ordered(all, sortBy, order) ==
    \A i \in DOMAIN all : \A j \in DOMAIN all :
        i < j => IF order = "desc" THEN KeyLeq(all[j], all[i], sortBy)
                 ELSE KeyLeq(all[i], all[j], sortBy)

\* C36: with sort = name, age or created (and a page below 2^30) the answer of
\* getUsers is the page window of a sequence that holds every user of the
\* table once and is ordered by that key: non-decreasing, and non-increasing
\* for order = desc.
C36_SortedBeforeWindow ==
    [][\A h \in Handlers :
        (/\ GetUsersRuns(h)
         /\ hreq[h].sort \in {"name", "age", "created"}
         /\ Fits(PageOf(hreq[h].page)))
        => \E order \in Perms(DOMAIN users) :
            LET all == [i \in DOMAIN order |-> users[order[i]]]
            IN /\ Ordered(all, hreq[h].sort, hreq[h].order)
               /\ hresp'[h].status = StatusOK
               /\ hresp'[h].users = Window(all, PageOf(hreq[h].page),
                                           PerPageOf(hreq[h].perPage))
      ]_vars

\* on the table with the user created later, one answer lists the three users
\* by name downwards and another lists them by creation time upwards, the
\* two seeded users by id downwards
C36_Witness ==
    /\ users = LateTable
    /\ \E h \in Handlers : \E g \in Handlers \ {h} :
        /\ hresp[h].status = StatusOK
        /\ Len(hresp[h].users) = 3
        /\ [i \in 1 .. 3 |-> hresp[h].users[i].Name]
               = <<"John Smith", "Ivan Petrov", "Alice">>
        /\ hresp[g].status = StatusOK
        /\ Len(hresp[g].users) = 3
        /\ [i \in 1 .. 3 |-> hresp[g].users[i].ID] = <<4, 1, SeedNextID>>

(***************************************************************************)
(* The queues of the registered clients.                                   *)
(***************************************************************************)
\* C38: whenever nobody holds h.mu, in either mode, the Send queue of every
\* client in h.clients is open.
C38_RegisteredQueuesOpen ==
    (hubW = "free" /\ hubR = {}) => \A c \in clients : ~closed[c]

\* nobody holds h.mu, the queue of one client was closed and the client is no
\* longer registered, while another client is registered
C38_Witness ==
    /\ hubW = "free" /\ hubR = {}
    /\ Alive
    /\ \E c \in Clients : \E d \in Clients \ {c} :
        closed[c] /\ c \notin clients /\ d \in clients

====
